---- MODULE Spec2Model ----
(***************************************************************************)
(* A state-machine model of the Aocla interpreter (src/aocla.c): the       *)
(* reference-counted object heap, the operand stack, the stack frames and  *)
(* their locals, the procedure table, and eval() with the native           *)
(* procedures of the library, driven by the REPL.                          *)
(*                                                                         *)
(* The C call stack (eval -> native procedure -> eval ...) is the variable *)
(* ctl: one record per C activation.  One action is one iteration of       *)
(* eval's for loop, or the part of a native procedure between two calls of *)
(* eval.  Objects live in heap, a function from addresses to cells; a cell *)
(* of type 0 is free memory.  Bytes are one-character strings, names and   *)
(* string contents are sequences of bytes.                                 *)
(***************************************************************************)
EXTENDS Integers, Sequences, FiniteSets, TLC

(* ------------------------------ bounds -------------------------------- *)
MaxObj == 136
MaxStack == 5
MaxFrames == 4
MaxDepth == 12
MaxLen == 4

(* --------------------------- program constants ------------------------ *)
OBJ_TYPE_INT == 1
OBJ_TYPE_LIST == 2
OBJ_TYPE_TUPLE == 4
OBJ_TYPE_STRING == 8
OBJ_TYPE_SYMBOL == 16
OBJ_TYPE_BOOL == 32
OBJ_TYPE_ANY ==
    {OBJ_TYPE_INT, OBJ_TYPE_LIST, OBJ_TYPE_TUPLE, OBJ_TYPE_STRING,
     OBJ_TYPE_SYMBOL, OBJ_TYPE_BOOL}
INT_MAX == 2147483647
INT_MIN == -INT_MAX - 1
COMPARE_TYPE_MISMATCH == INT_MIN
NULL == 0
NUL == ""
NoRet == -1

Addr == 1..MaxObj
FrameId == 1..MaxFrames

(* Printable bytes in ASCII order (preceded by the three control bytes     *)
(* the string escapes produce); strcmp only needs the order.               *)
ByteOrder ==
    << "\t", "\n", "\r", " ", "!", "\"", "#", "$", "%", "&", "'", "(", ")",
       "*", "+", ",", "-", ".", "/", "0", "1", "2", "3", "4", "5", "6", "7",
       "8", "9", ":", ";", "<", "=", ">", "?", "@", "A", "B", "C", "D", "E",
       "F", "G", "H", "I", "J", "K", "L", "M", "N", "O", "P", "Q", "R", "S",
       "T", "U", "V", "W", "X", "Y", "Z", "[", "\\", "]", "^", "_", "a",
       "b", "c", "d", "e", "f", "g", "h", "i", "j", "k", "l", "m", "n", "o",
       "p", "q", "r", "s", "t", "u", "v", "w", "x", "y", "z", "{", "|", "}",
       "~" >>

Ord(c) == IF c = NUL THEN 0 ELSE CHOOSE k \in 1..Len(ByteOrder) : ByteOrder[k] = c

(* s[k] of a NUL-terminated C string, k counted from 0. *)
CharAt(s, k) == IF k < Len(s) THEN s[k + 1] ELSE NUL

(* ------------------------- parsed values (trees) ---------------------- *)
(* What parseObject returns for a literal, before it is laid out in the   *)
(* heap: type, payload and quoted flag of the node and of its elements.   *)
tInt(n) == [type |-> OBJ_TYPE_INT, i |-> n, str |-> <<>>, ele |-> <<>>, quoted |-> 0]
tBool(b) == [type |-> OBJ_TYPE_BOOL, i |-> b, str |-> <<>>, ele |-> <<>>, quoted |-> 0]
tStr(s) == [type |-> OBJ_TYPE_STRING, i |-> 0, str |-> s, ele |-> <<>>, quoted |-> 0]
tSym(s) == [type |-> OBJ_TYPE_SYMBOL, i |-> 0, str |-> s, ele |-> <<>>, quoted |-> 0]
tQSym(s) == [type |-> OBJ_TYPE_SYMBOL, i |-> 0, str |-> s, ele |-> <<>>, quoted |-> 1]
tList(es) == [type |-> OBJ_TYPE_LIST, i |-> 0, str |-> <<>>, ele |-> es, quoted |-> 0]
tTuple(cs) ==
    [type |-> OBJ_TYPE_TUPLE, i |-> 0, str |-> <<>>,
     ele |-> [k \in 1..Len(cs) |-> tSym(<<cs[k]>>)], quoted |-> 0]
tQTuple(cs) == [tTuple(cs) EXCEPT !.quoted = 1]
tVar(c) == tSym(<<"$", c>>)

(* TRUE.  TLC computes v to evaluate it, which keeps the evaluation of the *)
(* recursive operators below shallow.                                     *)
Strict(v) == v = v

(* ------------------------------- heap --------------------------------- *)
FreeCell == [type |-> 0, refcount |-> 0, i |-> 0, str |-> <<>>, ele |-> <<>>, quoted |-> 0]

IsFree(h, a) == h[a].type = 0

(* malloc: the lowest free address, NULL when the heap bound is reached. *)
FreeAddr(h) ==
    IF \A a \in Addr : ~IsFree(h, a) THEN NULL
    ELSE CHOOSE a \in Addr : IsFree(h, a) /\ \A b \in 1..(a - 1) : ~IsFree(h, b)

(* newObject: refcount 1.  The result has a = NULL when no cell is left. *)
newObject(h, type, i, str, quoted) ==
    LET a == FreeAddr(h) IN
    IF a = NULL THEN [h |-> h, a |-> NULL]
    ELSE [h |-> [h EXCEPT ![a] = [type |-> type, refcount |-> 1, i |-> i,
                                  str |-> str, ele |-> <<>>, quoted |-> quoted]],
          a |-> a]

newInt(h, i) == newObject(h, OBJ_TYPE_INT, i, <<>>, 0)
newBool(h, b) == newObject(h, OBJ_TYPE_BOOL, b, <<>>, 0)
newString(h, s) == newObject(h, OBJ_TYPE_STRING, 0, s, 0)

retain(h, o) == [h EXCEPT ![o].refcount = @ + 1]

RECURSIVE release(_, _)
RECURSIVE releaseEach(_, _)
release(h, o) ==
    IF o = NULL THEN h
    ELSE IF h[o].refcount - 1 = 0
         THEN [releaseEach([h EXCEPT ![o].refcount = 0], h[o].ele) EXCEPT ![o] = FreeCell]
         ELSE [h EXCEPT ![o].refcount = @ - 1]
releaseEach(h, es) ==
    IF es = <<>> THEN h
    ELSE LET h1 == release(h, Head(es)) IN
         IF Strict(h1) THEN releaseEach(h1, Tail(es)) ELSE h1

(* The heap after parseObject has built the tree t: the node first, then  *)
(* its elements in order, every node with refcount 1.                     *)
RECURSIVE allocParsed(_, _)
RECURSIVE allocParsedEach(_, _, _)
allocParsed(h, t) ==
    LET r == newObject(h, t.type, t.i, t.str, t.quoted) IN
    IF r.a = NULL THEN r ELSE allocParsedEach(r.h, r.a, t.ele)
allocParsedEach(h, a, ts) ==
    IF ts = <<>> THEN [h |-> h, a |-> a]
    ELSE LET r == allocParsed(h, Head(ts)) IN
         IF r.a = NULL THEN r
         ELSE allocParsedEach([r.h EXCEPT ![a].ele = Append(@, r.a)], a, Tail(ts))

(* deepCopy: a new node of the same type with refcount 1.  Int and Bool   *)
(* copy the payload, String and Symbol copy the bytes and the quoted      *)
(* flag, List and Tuple copy the elements recursively and leave l.quoted  *)
(* as malloc returned it (written 0 here; Uninitialised overwrites it).   *)
RECURSIVE deepCopy(_, _)
RECURSIVE deepCopyEach(_, _, _)
deepCopy(h, o) ==
    LET r == newObject(h, h[o].type, h[o].i, h[o].str,
                       IF h[o].type \in {OBJ_TYPE_STRING, OBJ_TYPE_SYMBOL}
                       THEN h[o].quoted ELSE 0) IN
    IF r.a = NULL THEN r ELSE deepCopyEach(r.h, r.a, h[o].ele)
deepCopyEach(h, a, es) ==
    IF es = <<>> THEN [h |-> h, a |-> a]
    ELSE LET r == deepCopy(h, Head(es)) IN
         IF r.a = NULL THEN r
         ELSE deepCopyEach([r.h EXCEPT ![a].ele = Append(@, r.a)], a, Tail(es))

(* The Tuple cells that a copy from heap h to heap h2 has allocated: their *)
(* l.quoted is uninitialised memory.                                       *)
NewTuples(h, h2) == {a \in Addr : IsFree(h, a) /\ h2[a].type = OBJ_TYPE_TUPLE}
Uninitialised(h2, T, uq) ==
    [a \in Addr |-> IF a \in T THEN [h2[a] EXCEPT !.quoted = uq[a]] ELSE h2[a]]

(* ------------------------------ compare ------------------------------- *)
RECURSIVE strcmpFrom(_, _, _)
strcmpFrom(a, b, k) ==
    IF CharAt(a, k) # CharAt(b, k) THEN Ord(CharAt(a, k)) - Ord(CharAt(b, k))
    ELSE IF CharAt(a, k) = NUL THEN 0
    ELSE strcmpFrom(a, b, k + 1)
strcmp(a, b) == strcmpFrom(a, b, 0)

Sign(n) == IF n < 0 THEN -1 ELSE IF n > 0 THEN 1 ELSE 0

(* compare: -1, 0, 1, or COMPARE_TYPE_MISMATCH; x and y are heap cells. *)
compare(x, y) ==
    IF x.type = OBJ_TYPE_INT /\ y.type = OBJ_TYPE_INT
    THEN IF x.i < y.i THEN -1 ELSE IF x.i > y.i THEN 1 ELSE 0
    ELSE IF x.type = OBJ_TYPE_BOOL /\ y.type = OBJ_TYPE_BOOL
    THEN IF x.i < y.i THEN -1 ELSE IF x.i > y.i THEN 1 ELSE 0
    ELSE IF /\ x.type \in {OBJ_TYPE_STRING, OBJ_TYPE_SYMBOL}
            /\ y.type \in {OBJ_TYPE_STRING, OBJ_TYPE_SYMBOL}
         THEN Sign(strcmp(x.str, y.str))
    ELSE IF /\ x.type \in {OBJ_TYPE_LIST, OBJ_TYPE_TUPLE}
            /\ y.type \in {OBJ_TYPE_LIST, OBJ_TYPE_TUPLE}
         THEN Sign(Len(x.ele) - Len(y.ele))
    ELSE COMPARE_TYPE_MISMATCH

(* ------------------------------ names --------------------------------- *)
n_add == <<"+">>
n_sub == <<"-">>
n_mul == <<"*">>
n_div == <<"/">>
n_eq == <<"=", "=">>
n_ge == <<">", "=">>
n_gt == <<">">>
n_le == <<"<", "=">>
n_lt == <<"<">>
n_ne == <<"!", "=">>
n_sort == <<"s", "o", "r", "t">>
n_def == <<"d", "e", "f">>
n_if == <<"i", "f">>
n_ifelse == <<"i", "f", "e", "l", "s", "e">>
n_while == <<"w", "h", "i", "l", "e">>
n_eval == <<"e", "v", "a", "l">>
n_upeval == <<"u", "p", "e", "v", "a", "l">>
n_print == <<"p", "r", "i", "n", "t">>
n_printnl == <<"p", "r", "i", "n", "t", "n", "l">>
n_len == <<"l", "e", "n">>
n_append == <<"-", ">">>
n_prepend == <<"<", "-">>
n_getat == <<"g", "e", "t", "@">>
n_showstack == <<"s", "h", "o", "w", "s", "t", "a", "c", "k">>
n_dup == <<"d", "u", "p">>
n_swap == <<"s", "w", "a", "p">>
n_drop == <<"d", "r", "o", "p">>
n_map == <<"m", "a", "p">>
n_foreach == <<"f", "o", "r", "e", "a", "c", "h">>
n_first == <<"f", "i", "r", "s", "t">>
n_rest == <<"r", "e", "s", "t">>
n_cat == <<"c", "a", "t">>

(* --------------------------- procedure table -------------------------- *)
(* The linked list ctx->proc as a sequence whose last element is the head *)
(* (newProc links a new node in front), so that the position of a node,   *)
(* which stands for its address, never changes.  cproc is the name of the *)
(* C function, "" for NULL.                                               *)
lookupProc(ps, name) ==
    LET S == {k \in 1..Len(ps) : strcmp(ps[k].name, name) = 0} IN
    IF S = {} THEN NULL ELSE CHOOSE k \in S : \A m \in S : m <= k

newProc(ps, name) == Append(ps, [name |-> name, proc |-> NULL, cproc |-> ""])

(* A new node whether or not the name is bound already. *)
addProcAlways(ps, h, name, cproc, list) ==
    [procs |-> Append(ps, [name |-> name, proc |-> list, cproc |-> cproc]), h |-> h]

(* addProc on table ps and heap h; the result is the new table and heap. *)
addProc(ps, h, name, cproc, list) ==
    LET ap == lookupProc(ps, name) IN
    IF ap # NULL
    THEN [procs |-> [ps EXCEPT ![ap].proc = list, ![ap].cproc = cproc],
          h |-> IF ps[ap].proc # NULL THEN release(h, ps[ap].proc) ELSE h]
    ELSE [procs |-> [newProc(ps, name) EXCEPT ![Len(ps) + 1].proc = list,
                                               ![Len(ps) + 1].cproc = cproc],
          h |-> h]

(* addProcString on a text that parses to the tree t. *)
addProcString(ps, h, name, t) ==
    LET r == allocParsed(h, t) IN addProc(ps, r.h, name, "", r.a)

(* The native procedures in the order loadLibrary registers them. *)
Natives ==
    << <<n_add, "procBasicMath">>, <<n_sub, "procBasicMath">>,
       <<n_mul, "procBasicMath">>, <<n_div, "procBasicMath">>,
       <<n_eq, "procCompare">>, <<n_ge, "procCompare">>, <<n_gt, "procCompare">>,
       <<n_le, "procCompare">>, <<n_lt, "procCompare">>, <<n_ne, "procCompare">>,
       <<n_sort, "procSortList">>, <<n_def, "procDef">>, <<n_if, "procIf">>,
       <<n_ifelse, "procIf">>, <<n_while, "procIf">>, <<n_eval, "procEval">>,
       <<n_upeval, "procUpeval">>, <<n_print, "procPrint">>,
       <<n_printnl, "procPrintnl">>, <<n_len, "procLen">>,
       <<n_append, "procListAppend">>, <<n_prepend, "procListAppend">>,
       <<n_getat, "procListGetAt">>, <<n_showstack, "procShowStack">> >>

(* The procedures loadLibrary defines in Aocla itself. *)
src_dup == tList(<<tTuple(<<"x">>), tVar("x"), tVar("x")>>)
(* swap with the two values pushed back in the order they had. *)
src_swapBack == tList(<<tTuple(<<"x", "y">>), tVar("x"), tVar("y")>>)
src_swap == tList(<<tTuple(<<"x", "y">>), tVar("y"), tVar("x")>>)
src_drop == tList(<<tTuple(<<"_">>)>>)
(* map with the function evaluated by eval, in map's own frame. *)
src_mapEval ==
    tList(<<tTuple(<<"l", "f">>), tVar("l"), tSym(n_len), tTuple(<<"e">>), tInt(0),
            tTuple(<<"j">>), tList(<<>>),
            tList(<<tVar("j"), tVar("e"), tSym(n_lt)>>),
            tList(<<tVar("l"), tVar("j"), tSym(n_getat), tVar("f"), tSym(n_eval),
                    tSym(n_swap), tSym(n_append), tVar("j"), tInt(1), tSym(n_add),
                    tTuple(<<"j">>)>>),
            tSym(n_while)>>)
src_map ==
    tList(<<tTuple(<<"l", "f">>), tVar("l"), tSym(n_len), tTuple(<<"e">>), tInt(0),
            tTuple(<<"j">>), tList(<<>>),
            tList(<<tVar("j"), tVar("e"), tSym(n_lt)>>),
            tList(<<tVar("l"), tVar("j"), tSym(n_getat), tVar("f"), tSym(n_upeval),
                    tSym(n_swap), tSym(n_append), tVar("j"), tInt(1), tSym(n_add),
                    tTuple(<<"j">>)>>),
            tSym(n_while)>>)
src_foreach ==
    tList(<<tTuple(<<"l", "f">>), tVar("l"), tSym(n_len), tTuple(<<"e">>), tInt(0),
            tTuple(<<"j">>),
            tList(<<tVar("j"), tVar("e"), tSym(n_lt)>>),
            tList(<<tVar("l"), tVar("j"), tSym(n_getat), tVar("f"), tSym(n_upeval),
                    tVar("j"), tInt(1), tSym(n_add), tTuple(<<"j">>)>>),
            tSym(n_while)>>)
src_first == tList(<<tInt(0), tSym(n_getat)>>)
src_rest ==
    tList(<<tBool(1), tTuple(<<"f">>), tList(<<>>), tTuple(<<"n">>),
            tList(<<tList(<<tVar("f")>>),
                    tList(<<tBool(0), tTuple(<<"f">>), tSym(n_drop)>>),
                    tList(<<tVar("n"), tSym(n_append), tTuple(<<"n">>)>>),
                    tSym(n_ifelse)>>),
            tSym(n_foreach), tVar("n")>>)
src_cat ==
    tList(<<tTuple(<<"a", "b">>), tVar("b"),
            tList(<<tVar("a"), tSym(n_append), tTuple(<<"a">>)>>),
            tSym(n_foreach), tVar("a")>>)

AoclaProcs ==
    << <<n_dup, src_dup>>, <<n_swap, src_swap>>, <<n_drop, src_drop>>,
       <<n_map, src_map>>, <<n_foreach, src_foreach>>, <<n_first, src_first>>,
       <<n_rest, src_rest>>, <<n_cat, src_cat>> >>

RECURSIVE loadNatives(_, _)
loadNatives(r, k) ==
    IF k > Len(Natives) THEN r
    ELSE LET r1 == addProc(r.procs, r.h, Natives[k][1], Natives[k][2], NULL) IN
         IF Strict(r1) THEN loadNatives(r1, k + 1) ELSE r1
RECURSIVE loadAocla(_, _)
loadAocla(r, k) ==
    IF k > Len(AoclaProcs) THEN r
    ELSE LET r1 == addProcString(r.procs, r.h, AoclaProcs[k][1], AoclaProcs[k][2]) IN
         IF Strict(r1) THEN loadAocla(r1, k + 1) ELSE r1

(* loadLibrary on an empty table and heap. *)
loadLibrary ==
    loadAocla(loadNatives([procs |-> <<>>, h |-> [a \in Addr |-> FreeCell]], 1), 1)

(* ------------------------------ frames -------------------------------- *)
(* locals maps the bound slots to their objects; a slot outside its       *)
(* domain holds NULL.  curproc is a position in the procedure table.      *)
NoLocals == [c \in {} |-> NULL]
FreeFrame == [used |-> FALSE, locals |-> NoLocals, curproc |-> NULL, prev |-> NULL]

newStackFrame(prev) == [used |-> TRUE, locals |-> NoLocals, curproc |-> NULL, prev |-> prev]

(* malloc handing out memory that is in use. *)
FrameInUse(fs) == CHOOSE f \in FrameId : fs[f].used

FreeFrameId(fs) ==
    IF \A f \in FrameId : fs[f].used THEN NULL
    ELSE CHOOSE f \in FrameId : ~fs[f].used /\ \A g \in 1..(f - 1) : fs[g].used

LocalOf(locals, idx) == IF idx \in DOMAIN locals THEN locals[idx] ELSE NULL
SetLocal(locals, idx, o) ==
    [c \in DOMAIN locals \cup {idx} |-> IF c = idx THEN o ELSE locals[c]]

(* freeStackFrame's loop: release every local, in slot order. *)
RECURSIVE releaseLocals(_, _)
releaseLocals(h, locals) ==
    IF DOMAIN locals = {} THEN h
    ELSE LET c == CHOOSE c \in DOMAIN locals : \A d \in DOMAIN locals : Ord(c) <= Ord(d)
             h1 == release(h, locals[c])
         IN IF Strict(h1)
            THEN releaseLocals(h1, [d \in DOMAIN locals \ {c} |-> locals[d]])
            ELSE h1

(* ------------------------------- state -------------------------------- *)
VARIABLES
    heap,    \* the objects: address -> cell
    stack,   \* ctx->stack[0 .. stacklen-1], a sequence of addresses
    procs,   \* ctx->proc
    frames,  \* the stack frames: frame id -> frame
    frame,   \* ctx->frame
    ctl,     \* the C call stack: activations of repl, eval and the natives
    ret,     \* the value being returned to the top activation, or NoRet
    lines,   \* the lines repl has read so far, each as parsed
    result,  \* what eval returned for the last program, NoRet before
    status,  \* "ok", or how the process ended: "trap", "ub"
    text,    \* the NUL-terminated text handed to parseObject, as bytes
    out      \* what printobj wrote for the value shown last

(* The program text and the printed text: eval reads neither. *)
io == <<text, out>>

vars == <<heap, stack, procs, frames, frame, ctl, ret, lines, result, status, text, out>>

(* Activations.  st is the position inside the activation:                 *)
(*   eval:    "loop" at the head of the for loop, "cproc" inside a native  *)
(*            procedure (prev holds the saved curproc), "proc" inside a    *)
(*            list-bound procedure (oldsf holds the saved frame);          *)
(*   procIf:  "cond" while the condition runs, "then" and "else" while a   *)
(*            branch runs.                                                 *)
(* dangling marks an eval whose list has been freed under it.  at is the  *)
(* operand stack, the current frame and the frames at the call site, when *)
(* the step that makes the call began; entry is the current frame, its    *)
(* current procedure and the frames allocated when the callee starts, at  *)
(* the end of that step.  No action reads at or entry.                    *)
Activation(k, l) ==
    [k |-> k, l |-> l, j |-> 0, st |-> "loop", prev |-> NULL, oldsf |-> NULL,
     cond |-> NULL, ifbranch |-> NULL, elsebranch |-> NULL, w |-> 0, e |-> 0,
     dangling |-> FALSE,
     at |-> [stack |-> stack, frame |-> frame, frames |-> frames],
     entry |-> [frame |-> frame', curproc |-> frames'[frame'].curproc,
                used |-> {f \in FrameId : frames'[f].used}]]

Top == ctl[Len(ctl)]
Pop(c) == SubSeq(c, 1, Len(c) - 1)
SetTop(c, r) == [c EXCEPT ![Len(c)] = r]
Below(s, n) == SubSeq(s, 1, Len(s) - n)

TopFrame == 1

(* repl's buf, once parsed: the line read last. *)
nlines == Len(lines)
line == lines[nlines]

Init ==
    /\ LET lib == loadLibrary IN
       /\ heap = lib.h
       /\ procs = lib.procs
    /\ stack = <<>>
    /\ frames = [f \in FrameId |-> IF f = TopFrame THEN newStackFrame(NULL) ELSE FreeFrame]
    /\ frame = TopFrame
    /\ ctl = <<>>
    /\ ret = NoRet
    /\ lines = <<>>
    /\ result = NoRet
    /\ status = "ok"
    /\ text = <<>>
    /\ out = <<>>

(* ------------------------------- eval --------------------------------- *)
AtLoop ==
    /\ status = "ok"
    /\ ctl # <<>>
    /\ Top.k = "eval"
    /\ Top.st = "loop"
    /\ ret = NoRet
    /\ ~Top.dangling

AtElement == AtLoop /\ Top.j < Len(heap[Top.l].ele)

(* o = l->l.ele[j] *)
CurAddr == heap[Top.l].ele[Top.j + 1]
Cur == heap[CurAddr]

Locals == frames[frame].locals

(* The end of one iteration: continue with j+1, or return 1. *)
NextElement == /\ ctl' = [ctl EXCEPT ![Len(ctl)].j = @ + 1]
               /\ ret' = NoRet
(* The failure is dropped and the loop goes on with the next element. *)
ReturnErrIgnored == /\ ctl' = [ctl EXCEPT ![Len(ctl)].j = @ + 1]
                    /\ ret' = NoRet
ReturnErr == /\ ctl' = Pop(ctl)
             /\ ret' = 1

(* for (j = 0; j < l->l.len; j++) ... return 0 *)
EvalEnd ==
    /\ AtLoop
    /\ Top.j >= Len(heap[Top.l].ele)
    /\ ctl' = Pop(ctl)
    /\ ret' = 0
    /\ UNCHANGED <<io, heap, stack, procs, frames, frame, lines, result, status>>

(* The list of this eval was released to zero by def while it ran: the    *)
(* loop reads freed memory.                                               *)
EvalFreed ==
    /\ status = "ok"
    /\ ctl # <<>>
    /\ Top.k = "eval"
    /\ Top.st = "loop"
    /\ ret = NoRet
    /\ Top.dangling
    /\ status' = "ub"
    /\ UNCHANGED <<io, heap, stack, procs, frames, frame, ctl, ret, lines, result>>

(* The copy is pushed with the flag deepCopy gave it. *)
notqKept(h, a) == h

(* notq->l.quoted = 0, notq->str.quoted = 0 *)
notq(h, a) == [h EXCEPT ![a].quoted = 0]

(* case OBJ_TYPE_TUPLE, quoted: push a copy with quoted cleared. *)
EvalQuotedTuple ==
    /\ AtElement
    /\ Cur.type = OBJ_TYPE_TUPLE
    /\ Cur.quoted # 0
    /\ LET r == deepCopy(heap, CurAddr) IN
       /\ r.a # NULL
       /\ Len(stack) < MaxStack
       /\ heap' = notq(r.h, r.a)
       /\ stack' = Append(stack, r.a)
    /\ NextElement
    /\ UNCHANGED <<io, procs, frames, frame, lines, result, status>>

(* The capture loop run from the last slot down: a name takes the slots   *)
(* in the opposite order.                                                 *)
captureReversed(r, names, s, base, i) ==
    [h |-> r.h,
     locals |-> [c \in DOMAIN r.locals \cup {names[k] : k \in 1..Len(names)} |->
                    IF \E k \in 1..Len(names) : names[k] = c
                    THEN s[base + Len(names) + 1
                           - (CHOOSE k \in 1..Len(names) :
                                 /\ names[k] = c
                                 /\ \A m \in (k + 1)..Len(names) : names[m] # c)]
                    ELSE r.locals[c]]]

(* The capture loop: locals after elements i .. len-1 of the tuple have   *)
(* taken stack[base+i]; names are the elements' first bytes.              *)
RECURSIVE captureFrom(_, _, _, _, _)
captureFrom(r, names, s, base, i) ==
    IF i >= Len(names) THEN r
    ELSE LET r1 == [h |-> release(r.h, LocalOf(r.locals, names[i + 1])),
                    locals |-> SetLocal(r.locals, names[i + 1], s[base + i + 1])]
         IN IF Strict(r1) THEN captureFrom(r1, names, s, base, i + 1) ELSE r1
capture(h, locals, names, s, base) ==
    captureFrom([h |-> h, locals |-> locals], names, s, base, 0)

TupleNames(h, t) == [k \in 1..Len(h[t].ele) |-> CharAt(h[h[t].ele[k]].str, 0)]

(* case OBJ_TYPE_TUPLE, not quoted, enough stack. *)
EvalCapture ==
    /\ AtElement
    /\ Cur.type = OBJ_TYPE_TUPLE
    /\ Cur.quoted = 0
    /\ Len(stack) >= Len(Cur.ele)
    /\ LET base == Len(stack) - Len(Cur.ele)
           r == capture(heap, Locals, TupleNames(heap, CurAddr), stack, base) IN
       /\ heap' = r.h
       /\ frames' = [frames EXCEPT ![frame].locals = r.locals]
       /\ stack' = SubSeq(stack, 1, base)
    /\ NextElement
    /\ UNCHANGED <<io, procs, frame, lines, result, status>>

(* The values that were there are taken off before the failure. *)
shortStackTaken(s) == <<>>

(* The stack after the test ctx->stacklen < o->l.len has failed: stacklen *)
(* is not written before the return.                                      *)
shortStack(s) == s

(* "Out of stack while capturing local" *)
EvalCaptureFail ==
    /\ AtElement
    /\ Cur.type = OBJ_TYPE_TUPLE
    /\ Cur.quoted = 0
    /\ Len(stack) < Len(Cur.ele)
    /\ ReturnErr
    /\ stack' = shortStack(stack)
    /\ UNCHANGED <<io, heap, procs, frames, frame, lines, result, status>>

(* case OBJ_TYPE_SYMBOL, quoted: push a copy with quoted cleared. *)
EvalQuotedSymbol ==
    /\ AtElement
    /\ Cur.type = OBJ_TYPE_SYMBOL
    /\ Cur.quoted # 0
    /\ LET r == deepCopy(heap, CurAddr) IN
       /\ r.a # NULL
       /\ Len(stack) < MaxStack
       /\ heap' = notq(r.h, r.a)
       /\ stack' = Append(stack, r.a)
    /\ NextElement
    /\ UNCHANGED <<io, procs, frames, frame, lines, result, status>>

AtSymbol == AtElement /\ Cur.type = OBJ_TYPE_SYMBOL /\ Cur.quoted = 0

(* The slot taken from the last byte of the name instead. *)
localIndexLast(name) == name[Len(name)]

(* The slot a $-symbol names: its second byte. *)
localIndex(name) == CharAt(name, 1)

(* o->str.ptr[0] == '$', local bound: push it and retain it. *)
EvalPushLocal ==
    /\ AtSymbol
    /\ CharAt(Cur.str, 0) = "$"
    /\ LocalOf(Locals, localIndex(Cur.str)) # NULL
    /\ Len(stack) < MaxStack
    /\ stack' = Append(stack, LocalOf(Locals, localIndex(Cur.str)))
    /\ heap' = retain(heap, LocalOf(Locals, localIndex(Cur.str)))
    /\ NextElement
    /\ UNCHANGED <<io, procs, frames, frame, lines, result, status>>

(* "Unbound local var" *)
EvalUnboundLocal ==
    /\ AtSymbol
    /\ CharAt(Cur.str, 0) = "$"
    /\ LocalOf(Locals, localIndex(Cur.str)) = NULL
    /\ ReturnErr
    /\ UNCHANGED <<io, heap, stack, procs, frames, frame, lines, result, status>>

AtCall == AtSymbol /\ CharAt(Cur.str, 0) # "$"
Proc == lookupProc(procs, Cur.str)

(* "Symbol not bound to procedure" *)
EvalUnboundProc ==
    /\ AtCall
    /\ Proc = NULL
    /\ ReturnErr
    /\ UNCHANGED <<io, heap, stack, procs, frames, frame, lines, result, status>>

(* default: push the element itself and retain it. *)
EvalPush ==
    /\ AtElement
    /\ Cur.type \notin {OBJ_TYPE_TUPLE, OBJ_TYPE_SYMBOL}
    /\ Len(stack) < MaxStack
    /\ stack' = Append(stack, CurAddr)
    /\ heap' = retain(heap, CurAddr)
    /\ NextElement
    /\ UNCHANGED <<io, procs, frames, frame, lines, result, status>>

(* Call of a procedure implemented in Aocla: a new frame, then eval of    *)
(* the bound list (which is not retained).                                *)
EvalCallProc ==
    /\ AtCall
    /\ Proc # NULL
    /\ procs[Proc].cproc = ""
    /\ FreeFrameId(frames) # NULL
    /\ Len(ctl) < MaxDepth
    /\ LET sf == FreeFrameId(frames) IN
       /\ frames' = [frames EXCEPT ![sf] = [newStackFrame(frame) EXCEPT !.curproc = Proc]]
       /\ frame' = sf
    /\ ctl' = Append(SetTop(ctl, [Top EXCEPT !.st = "proc", !.oldsf = frame]),
                     Activation("eval", procs[Proc].proc))
    /\ UNCHANGED <<io, heap, stack, procs, ret, lines, result, status>>

(* freeStackFrame(ctx->frame); ctx->frame = oldsf; if (err) return err; *)
EvalProcReturn ==
    /\ status = "ok"
    /\ ctl # <<>>
    /\ Top.k = "eval"
    /\ Top.st = "proc"
    /\ ret # NoRet
    /\ heap' = releaseLocals(heap, frames[frame].locals)
    /\ frames' = [frames EXCEPT ![frame] = FreeFrame]
    /\ frame' = Top.oldsf
    /\ IF ret # 0
       THEN ctl' = Pop(ctl) /\ ret' = ret
       ELSE ctl' = SetTop(ctl, [Top EXCEPT !.st = "loop", !.oldsf = NULL, !.j = @ + 1])
            /\ ret' = NoRet
    /\ UNCHANGED <<io, stack, procs, lines, result, status>>

(* ctx->frame->curproc = prev; if (err) return err;  after a native       *)
(* procedure that called eval has returned.                               *)
EvalCprocReturn ==
    /\ status = "ok"
    /\ ctl # <<>>
    /\ Top.k = "eval"
    /\ Top.st = "cproc"
    /\ ret # NoRet
    /\ frames' = [frames EXCEPT ![frame].curproc = Top.prev]
    /\ IF ret # 0
       THEN ctl' = Pop(ctl) /\ ret' = ret
       ELSE ctl' = SetTop(ctl, [Top EXCEPT !.st = "loop", !.prev = NULL, !.j = @ + 1])
            /\ ret' = NoRet
    /\ UNCHANGED <<io, heap, stack, procs, frame, lines, result, status>>

(* --------------------------- native procedures ------------------------ *)
(* checkStackLen and checkStackType return 1 on failure, like the code.   *)
(* masks[i] is the set of types allowed at stack[stacklen-count+i].       *)
checkStackLen(s, min) == IF Len(s) < min THEN 1 ELSE 0

checkStackType(h, s, masks) ==
    IF checkStackLen(s, Len(masks)) # 0 THEN 1
    ELSE IF \E i \in 1..Len(masks) : h[s[Len(s) - Len(masks) + i]].type \notin masks[i]
         THEN 1 ELSE 0

(* What a native procedure that does not call eval leaves: its return     *)
(* value, the heap and the stack; ub when it ran into undefined behaviour.*)
Outcome(err, h, s) == [err |-> err, h |-> h, s |-> s, ub |-> FALSE]
Undefined(h, s) == [err |-> 0, h |-> h, s |-> s, ub |-> TRUE]

(* The guard fails after the top of the stack was popped. *)
RejectedPopped(h, s) == Outcome(1, h, Below(s, 1))

(* if (checkStackLen(...)) return 1; if (checkStackType(...)) return 1;   *)
(* nothing was popped yet.                                                *)
Rejected(h, s) == Outcome(1, h, s)

Abs(n) == IF n < 0 THEN -n ELSE n

(* C's int division truncates toward zero. *)
TruncDiv(a, b) ==
    IF (a < 0) = (b < 0) THEN Abs(a) \div Abs(b) ELSE -(Abs(a) \div Abs(b))

(* Whether a OP b leaves the range of int (signed overflow) or divides by *)
(* zero: undefined behaviour in C.                                        *)
MulOverflows(a, b) ==
    IF a = 0 \/ b = 0 THEN FALSE
    ELSE IF a = INT_MIN THEN b # 1
    ELSE IF b = INT_MIN THEN a # 1
    ELSE IF (a < 0) = (b < 0) THEN Abs(a) > INT_MAX \div Abs(b)
    ELSE /\ Abs(a) > INT_MAX \div Abs(b)
         /\ ~(INT_MIN % Abs(b) = 0 /\ INT_MIN \div Abs(b) = -Abs(a))

MathUndefined(op, a, b) ==
    CASE op = "+" -> (b > 0 /\ a > INT_MAX - b) \/ (b < 0 /\ a < INT_MIN - b)
      [] op = "-" -> (b < 0 /\ a > INT_MAX + b) \/ (b > 0 /\ a < INT_MIN + b)
      [] op = "*" -> MulOverflows(a, b)
      [] op = "/" -> b = 0 \/ (a = INT_MIN /\ b = -1)
      [] OTHER -> TRUE

MathResult(op, a, b) ==
    CASE op = "+" -> a + b
      [] op = "-" -> a - b
      [] op = "*" -> a * b
      [] op = "/" -> TruncDiv(a, b)

(* procBasicMath: a is popped first, b second, the result is a OP b. *)
procBasicMath(h, s, fname) ==
    IF checkStackType(h, s, <<{OBJ_TYPE_INT}, {OBJ_TYPE_INT}>>) # 0
    THEN {Rejected(h, s)}
    ELSE LET a == s[Len(s)]
             b == s[Len(s) - 1]
             op == IF Len(fname) = 1 THEN fname[1] ELSE NUL
         IN IF MathUndefined(op, h[a].i, h[b].i) THEN {Undefined(h, s)}
            ELSE LET r == newInt(h, MathResult(op, h[a].i, h[b].i)) IN
                 IF r.a = NULL THEN {}
                 ELSE {Outcome(0, release(release(r.h, a), b), Append(Below(s, 2), r.a))}

(* The operator read as if the operands had been popped in the other      *)
(* order: 0 OP cmp.                                                       *)
compareResultSwapped(fname, cmp) ==
    IF CharAt(fname, 1) = "="
    THEN CASE CharAt(fname, 0) = "=" -> IF cmp = 0 THEN 1 ELSE 0
           [] CharAt(fname, 0) = "!" -> IF cmp # 0 THEN 1 ELSE 0
           [] CharAt(fname, 0) = ">" -> IF cmp <= 0 THEN 1 ELSE 0
           [] CharAt(fname, 0) = "<" -> IF cmp >= 0 THEN 1 ELSE 0
    ELSE CASE CharAt(fname, 0) = ">" -> IF cmp < 0 THEN 1 ELSE 0
           [] CharAt(fname, 0) = "<" -> IF cmp > 0 THEN 1 ELSE 0

(* The Bool a comparison operator makes of compare's result. *)
compareResult(fname, cmp) ==
    IF CharAt(fname, 1) = "="
    THEN CASE CharAt(fname, 0) = "=" -> IF cmp = 0 THEN 1 ELSE 0
           [] CharAt(fname, 0) = "!" -> IF cmp # 0 THEN 1 ELSE 0
           [] CharAt(fname, 0) = ">" -> IF cmp >= 0 THEN 1 ELSE 0
           [] CharAt(fname, 0) = "<" -> IF cmp <= 0 THEN 1 ELSE 0
    ELSE CASE CharAt(fname, 0) = ">" -> IF cmp > 0 THEN 1 ELSE 0
           [] CharAt(fname, 0) = "<" -> IF cmp < 0 THEN 1 ELSE 0

(* procCompare: b is popped first, a second; on a type mismatch b is      *)
(* pushed back first and a second.                                        *)
procCompare(h, s, fname) ==
    IF checkStackLen(s, 2) # 0 THEN {Rejected(h, s)}
    ELSE LET b == s[Len(s)]
             a == s[Len(s) - 1]
             cmp == compare(h[a], h[b])
         IN IF cmp = COMPARE_TYPE_MISMATCH
            THEN {Outcome(1, h, Below(s, 2) \o <<b, a>>)}
            ELSE LET r == newBool(h, compareResult(fname, cmp)) IN
                 IF r.a = NULL THEN {}
                 ELSE {Outcome(0, release(release(r.h, a), b), Append(Below(s, 2), r.a))}

(* The object itself, however many references it has. *)
getSharedObject(h, o) == [h |-> h, a |-> o]

(* getUnsharedObject: a deep copy when the refcount is above 1 (the       *)
(* object passed in keeps its refcount), the object itself otherwise.     *)
getUnsharedObject(h, o) ==
    IF h[o].refcount > 1 THEN deepCopy(h, o) ELSE [h |-> h, a |-> o]

(* The heaps a copy can leave, one for every content of the uninitialised *)
(* l.quoted fields of the Tuple cells it allocated.                       *)
CopiedHeaps(h, h2) ==
    {Uninitialised(h2, NewTuples(h, h2), uq) : uq \in [NewTuples(h, h2) -> {0, 1}]}

(* qsort with qsort_obj_cmp: any order of the elements that compare       *)
(* accepts; when some pair of elements is a type mismatch the comparison  *)
(* is not an order and any permutation can result.                        *)
qsort(h, ele) ==
    LET n == Len(ele)
        perms == {p \in [1..n -> 1..n] : \A i, k \in 1..n : i # k => p[i] # p[k]}
        ordered == \A i, k \in 1..n : compare(h[ele[i]], h[ele[k]]) # COMPARE_TYPE_MISMATCH
        sorted(p) == \A i, k \in 1..n :
                        i < k => compare(h[ele[p[i]]], h[ele[p[k]]]) <= 0
    IN {[k \in 1..n |-> ele[p[k]]] : p \in {q \in perms : ordered => sorted(q)}}

procSortList(h, s) ==
    IF checkStackType(h, s, <<{OBJ_TYPE_LIST}>>) # 0 THEN {Rejected(h, s)}
    ELSE LET r == getUnsharedObject(h, s[Len(s)]) IN
         IF r.a = NULL THEN {}
         ELSE UNION {{Outcome(0, [hu EXCEPT ![r.a].ele = e], Append(Below(s, 1), r.a)) :
                        e \in qsort(hu, hu[r.a].ele)} : hu \in CopiedHeaps(h, r.h)}

(* procListAppend: -> appends at the tail, <- at the head. *)
procListAppend(h, s, fname) ==
    IF checkStackType(h, s, <<OBJ_TYPE_ANY, {OBJ_TYPE_LIST}>>) # 0 THEN {Rejected(h, s)}
    ELSE LET r == getUnsharedObject(h, s[Len(s)])
             ele == s[Len(s) - 1]
         IN IF r.a = NULL \/ Len(h[s[Len(s)]].ele) >= MaxLen THEN {}
            ELSE {Outcome(0,
                          [hu EXCEPT ![r.a].ele = IF CharAt(fname, 0) = "-"
                                                  THEN Append(@, ele) ELSE <<ele>> \o @],
                          Append(Below(s, 2), r.a)) : hu \in CopiedHeaps(h, r.h)}

(* The index taken as it is: no counting from the end. *)
getAtIndexRaw(len, i) == i

(* if (i < 0) i = len+i *)
getAtIndex(len, i) == IF i < 0 THEN len + i ELSE i

(* procListGetAt *)
procListGetAt(h, s) ==
    IF checkStackType(h, s, <<{OBJ_TYPE_LIST, OBJ_TYPE_STRING, OBJ_TYPE_TUPLE},
                              {OBJ_TYPE_INT}>>) # 0
    THEN {Rejected(h, s)}
    ELSE LET idx == s[Len(s)]
             o == s[Len(s) - 1]
             len == IF h[o].type = OBJ_TYPE_STRING THEN Len(h[o].str) ELSE Len(h[o].ele)
             i == getAtIndex(len, h[idx].i)
             h1 == release(h, idx)
         IN IF i < 0 \/ i >= len
            THEN LET r == newBool(h1, 0) IN
                 IF r.a = NULL THEN {}
                 ELSE {Outcome(0, release(r.h, o), Append(Below(s, 2), r.a))}
            ELSE IF h[o].type = OBJ_TYPE_STRING
            THEN LET r == newString(h1, <<h[o].str[i + 1]>>) IN
                 IF r.a = NULL THEN {}
                 ELSE {Outcome(0, release(r.h, o), Append(Below(s, 2), r.a))}
            ELSE {Outcome(0, release(retain(h1, h[o].ele[i + 1]), o),
                          Append(Below(s, 2), h[o].ele[i + 1]))}

(* procLen *)
procLen(h, s) ==
    IF checkStackType(h, s, <<{OBJ_TYPE_LIST, OBJ_TYPE_TUPLE, OBJ_TYPE_STRING,
                               OBJ_TYPE_SYMBOL}>>) # 0
    THEN {Rejected(h, s)}
    ELSE LET o == s[Len(s)]
             len == IF h[o].type \in {OBJ_TYPE_LIST, OBJ_TYPE_TUPLE}
                    THEN Len(h[o].ele) ELSE Len(h[o].str)
             r == newInt(release(h, o), len)
         IN IF r.a = NULL THEN {} ELSE {Outcome(0, r.h, Append(Below(s, 1), r.a))}

(* procPrint and procPrintnl: the top object is consumed; what goes to    *)
(* stdout is not part of the state.                                       *)
procPrint(h, s) ==
    IF checkStackLen(s, 1) # 0 THEN {Rejected(h, s)}
    ELSE {Outcome(0, release(h, s[Len(s)]), Below(s, 1))}

procPrintnl(h, s) ==
    IF checkStackLen(s, 1) # 0 THEN {Rejected(h, s)} ELSE procPrint(h, s)

(* procShowStack only prints. *)
procShowStack(h, s) == {Outcome(0, h, s)}

(* eval's call of a native procedure that does not call eval itself:      *)
(* curproc is set for the call and restored after it.                     *)
CallNative(cname, outcomes) ==
    /\ AtCall
    /\ Proc # NULL
    /\ procs[Proc].cproc = cname
    /\ \E r \in outcomes :
          /\ Len(r.s) <= MaxStack
          /\ IF r.ub
             THEN /\ status' = "ub"
                  /\ UNCHANGED <<heap, stack, ctl, ret>>
             ELSE /\ status' = status
                  /\ heap' = r.h
                  /\ stack' = r.s
                  /\ IF r.err = 0 THEN NextElement ELSE ReturnErr
    /\ UNCHANGED <<io, procs, frames, frame, lines, result>>

CallBasicMath == CallNative("procBasicMath", procBasicMath(heap, stack, procs[Proc].name))
CallCompare == CallNative("procCompare", procCompare(heap, stack, procs[Proc].name))
CallSortList == CallNative("procSortList", procSortList(heap, stack))
CallListAppend == CallNative("procListAppend", procListAppend(heap, stack, procs[Proc].name))
CallListGetAt == CallNative("procListGetAt", procListGetAt(heap, stack))
CallLen == CallNative("procLen", procLen(heap, stack))
CallPrint == CallNative("procPrint", procPrint(heap, stack))
CallPrintnl == CallNative("procPrintnl", procPrintnl(heap, stack))
CallShowStack == CallNative("procShowStack", procShowStack(heap, stack))

(* procDef: bind the list under the symbol's name.  An eval whose list    *)
(* addProc released to zero keeps a dangling pointer.                     *)
procDef(ps, h, s) ==
    LET sym == s[Len(s)]
        code == s[Len(s) - 1]
        r == addProc(ps, h, h[sym].str, "", code)
    IN [procs |-> r.procs, h |-> release(r.h, sym), s |-> Below(s, 2)]

Dangle(c, h) ==
    [k \in 1..Len(c) |->
        IF c[k].k = "eval" /\ IsFree(h, c[k].l) THEN [c[k] EXCEPT !.dangling = TRUE]
        ELSE c[k]]

CallDef ==
    /\ AtCall
    /\ Proc # NULL
    /\ procs[Proc].cproc = "procDef"
    /\ IF checkStackType(heap, stack, <<{OBJ_TYPE_LIST}, {OBJ_TYPE_SYMBOL}>>) # 0
       THEN ReturnErr /\ UNCHANGED <<heap, stack, procs>>
       ELSE LET r == procDef(procs, heap, stack) IN
            /\ procs' = r.procs
            /\ heap' = r.h
            /\ stack' = r.s
            /\ ctl' = Dangle([ctl EXCEPT ![Len(ctl)].j = @ + 1], r.h)
            /\ ret' = NoRet
    /\ UNCHANGED <<io, frames, frame, lines, result, status>>

(* The native procedures that call eval.  Entering one sets curproc and   *)
(* leaves eval's activation in "cproc"; the procedure's own activation    *)
(* and the eval it calls are pushed on top.                               *)
EnterNative(acts) ==
    /\ frames' = [frames EXCEPT ![frame].curproc = Proc]
    /\ Len(ctl) + Len(acts) <= MaxDepth
    /\ ctl' = SetTop(ctl, [Top EXCEPT !.st = "cproc", !.prev = frames[frame].curproc])
              \o acts
    /\ ret' = NoRet

(* procEval *)
CallEval ==
    /\ AtCall
    /\ Proc # NULL
    /\ procs[Proc].cproc = "procEval"
    /\ UNCHANGED <<io, heap, procs, frame, lines, result, status>>
    /\ IF checkStackType(heap, stack, <<{OBJ_TYPE_LIST}>>) # 0
       THEN ReturnErr /\ UNCHANGED <<stack, frames>>
       ELSE /\ stack' = Below(stack, 1)
            /\ EnterNative(<<Activation("procEval", stack[Len(stack)]),
                             Activation("eval", stack[Len(stack)])>>)

ProcEvalReturn ==
    /\ status = "ok"
    /\ ctl # <<>>
    /\ Top.k = "procEval"
    /\ ret # NoRet
    /\ heap' = release(heap, Top.l)
    /\ ctl' = Pop(ctl)
    /\ UNCHANGED <<io, stack, procs, frames, frame, ret, lines, result, status>>

(* The list runs in the frame it was popped in. *)
upevalFrameOwn(fs, f) == f

(* The frame procUpeval evaluates in: the previous one when there is one. *)
upevalFrame(fs, f) == IF fs[f].prev # NULL THEN fs[f].prev ELSE f

(* procUpeval: the list runs in the previous frame when there is one;     *)
(* oldsf is the local variable saved.                                     *)
CallUpeval ==
    /\ AtCall
    /\ Proc # NULL
    /\ procs[Proc].cproc = "procUpeval"
    /\ IF checkStackType(heap, stack, <<{OBJ_TYPE_LIST}>>) # 0
       THEN ReturnErr /\ UNCHANGED <<stack, frames, frame>>
       ELSE /\ stack' = Below(stack, 1)
            /\ frame' = upevalFrame(frames, frame)
            /\ EnterNative(<<[Activation("procUpeval", stack[Len(stack)]) EXCEPT
                                 !.oldsf = IF frames[frame].prev # NULL THEN frame ELSE NULL],
                             Activation("eval", stack[Len(stack)])>>)
    /\ UNCHANGED <<io, heap, procs, lines, result, status>>

(* The frame procUpeval left is not taken back. *)
savedFrameLeft(a, f) == f

(* if (saved) ctx->frame = saved *)
savedFrame(a, f) == IF a.oldsf # NULL THEN a.oldsf ELSE f

ProcUpevalReturn ==
    /\ status = "ok"
    /\ ctl # <<>>
    /\ Top.k = "procUpeval"
    /\ ret # NoRet
    /\ frame' = savedFrame(Top, frame)
    /\ heap' = release(heap, Top.l)
    /\ ctl' = Pop(ctl)
    /\ UNCHANGED <<io, stack, procs, frames, ret, lines, result, status>>

(* procIf: if, ifelse and while.  w and e are read from the name of the   *)
(* current procedure.                                                     *)
CallIf ==
    /\ AtCall
    /\ Proc # NULL
    /\ procs[Proc].cproc = "procIf"
    /\ UNCHANGED <<io, heap, procs, frame, lines, result, status>>
    /\ LET w == IF CharAt(procs[Proc].name, 0) = "w" THEN 1 ELSE 0
           e == IF CharAt(procs[Proc].name, 2) = "e" THEN 1 ELSE 0
           n == IF e = 1 THEN 3 ELSE 2
       IN IF checkStackType(heap, stack, [k \in 1..n |-> {OBJ_TYPE_LIST}]) # 0
          THEN ReturnErr /\ UNCHANGED <<stack, frames>>
          ELSE LET elsebranch == IF e = 1 THEN stack[Len(stack)] ELSE NULL
                   ifbranch == stack[Len(stack) - e]
                   cond == stack[Len(stack) - e - 1]
               IN /\ stack' = Below(stack, n)
                  /\ EnterNative(<<[Activation("procIf", NULL) EXCEPT
                                       !.st = "cond", !.cond = cond, !.ifbranch = ifbranch,
                                       !.elsebranch = elsebranch, !.w = w, !.e = e],
                                   Activation("eval", cond)>>)

(* rterr / the end of procIf: release the three lists and return. *)
procIfCleanup(h, a) == release(release(release(h, a.cond), a.ifbranch), a.elsebranch)

(* The branches taken the other way round. *)
branchOfInverted(a, res) ==
    IF res = 0 THEN "then" ELSE IF a.e # 0 THEN "else" ELSE "none"

(* if (res) the true branch, else if (e) the false branch, else none. *)
branchOf(a, res) ==
    IF res # 0 THEN "then" ELSE IF a.e # 0 THEN "else" ELSE "none"

(* After eval(ctx,cond): check and consume the Bool, choose the branch. *)
ProcIfCond ==
    /\ status = "ok"
    /\ ctl # <<>>
    /\ Top.k = "procIf"
    /\ Top.st = "cond"
    /\ ret # NoRet
    /\ UNCHANGED <<io, procs, frames, frame, lines, result, status>>
    /\ IF ret # 0 \/ checkStackType(heap, stack, <<{OBJ_TYPE_BOOL}>>) # 0
       THEN /\ heap' = procIfCleanup(heap, Top)
            /\ ctl' = Pop(ctl)
            /\ ret' = 1
            /\ stack' = stack
       ELSE LET condres == stack[Len(stack)]
                res == heap[condres].i
                h1 == release(heap, condres)
            IN /\ stack' = Below(stack, 1)
               /\ IF branchOf(Top, res) = "then"
                  THEN /\ heap' = h1
                       /\ ctl' = Append(SetTop(ctl, [Top EXCEPT !.st = "then"]),
                                        Activation("eval", Top.ifbranch))
                       /\ ret' = NoRet
                  ELSE IF branchOf(Top, res) = "else"
                  THEN /\ heap' = h1
                       /\ ctl' = Append(SetTop(ctl, [Top EXCEPT !.st = "else"]),
                                        Activation("eval", Top.elsebranch))
                       /\ ret' = NoRet
                  ELSE /\ heap' = procIfCleanup(h1, Top)
                       /\ ctl' = Pop(ctl)
                       /\ ret' = 0

(* The loop run once only: no way back to the condition. *)
loopsOnce(a) == FALSE

(* if (w) continue: after the true branch of a while. *)
loopsAgain(a) == a.st = "then" /\ a.w # 0

(* After eval of a branch: while goes back to the condition after the     *)
(* true branch, everything else ends.                                     *)
ProcIfBranch ==
    /\ status = "ok"
    /\ ctl # <<>>
    /\ Top.k = "procIf"
    /\ Top.st \in {"then", "else"}
    /\ ret # NoRet
    /\ UNCHANGED <<io, stack, procs, frames, frame, lines, result, status>>
    /\ IF ret # 0
       THEN /\ heap' = procIfCleanup(heap, Top)
            /\ ctl' = Pop(ctl)
            /\ ret' = 1
       ELSE IF loopsAgain(Top)
       THEN /\ heap' = heap
            /\ ctl' = Append(SetTop(ctl, [Top EXCEPT !.st = "cond"]),
                             Activation("eval", Top.cond))
            /\ ret' = NoRet
       ELSE /\ heap' = procIfCleanup(heap, Top)
            /\ ctl' = Pop(ctl)
            /\ ret' = 0

(* ------------------------------ the parser ---------------------------- *)
(* A text is a C string: a sequence of bytes, the NUL after the last one. *)
(* Positions count bytes from 0, so Len(s) is the position of the NUL and *)
(* a position past it is outside the string.                              *)
Digits == <<"0", "1", "2", "3", "4", "5", "6", "7", "8", "9">>
DigitOf(c) == (CHOOSE k \in 1..10 : Digits[k] = c) - 1

isspace(c) == c \in {" ", "\t", "\n", "\r", "\f"}
isdigit(c) == \E k \in 1..10 : Digits[k] = c
isalpha(c) ==
    \E k \in 1..Len(ByteOrder) :
        /\ ByteOrder[k] = c
        /\ \/ Ord("A") <= k /\ k <= Ord("Z")
           \/ Ord("a") <= k /\ k <= Ord("z")

issymbol(c) ==
    \/ isalpha(c)
    \/ c \in {"@", "$", "+", "-", "*", "/", "=", "?", "%", ">", "<", "_", "'"}

(* The comment loop of parserConsumeSpace: up to the newline or the NUL. *)
RECURSIVE seekNewline(_, _)
seekNewline(s, p) ==
    IF CharAt(s, p) # NUL /\ CharAt(s, p) # "\n" THEN seekNewline(s, p + 1) ELSE p

RECURSIVE parserConsumeSpace(_, _)
parserConsumeSpace(s, p) ==
    IF isspace(CharAt(s, p)) THEN parserConsumeSpace(s, p + 1)
    ELSE IF CharAt(s, p) = "/" /\ CharAt(s, p + 1) = "/"
         THEN parserConsumeSpace(s, seekNewline(s, p))
         ELSE p

(* The bytes parseObject copies into buf[64] for an integer end here. *)
RECURSIVE intEnd(_, _, _)
intEnd(s, p, len) ==
    IF (CharAt(s, p) = "-" \/ isdigit(CharAt(s, p))) /\ len < 63
    THEN intEnd(s, p + 1, len + 1)
    ELSE p

(* atoi reads an optional sign and the digits after it and stops at the   *)
(* first other byte.  The digits are summed below zero, where int has one *)
(* more value; the result is 1 when the number is not an int.             *)
RECURSIVE atoiDigits(_, _, _)
atoiDigits(buf, k, acc) ==
    IF k > Len(buf) \/ ~isdigit(buf[k]) THEN acc
    ELSE LET d == DigitOf(buf[k]) IN
         IF acc < -214748364 \/ (acc = -214748364 /\ d > 8) THEN 1
         ELSE atoiDigits(buf, k + 1, acc * 10 - d)

(* ok is FALSE when the value cannot be represented: atoi is undefined.   *)
atoi(buf) ==
    LET neg == buf # <<>> /\ buf[1] = "-"
        m == atoiDigits(buf, IF neg THEN 2 ELSE 1, 0)
    IN IF m = 1 \/ (~neg /\ m = INT_MIN) THEN [ok |-> FALSE, i |-> 0]
       ELSE [ok |-> TRUE, i |-> IF neg THEN m ELSE -m]

RECURSIVE symbolEnd(_, _)
symbolEnd(s, p) == IF issymbol(CharAt(s, p)) THEN symbolEnd(s, p + 1) ELSE p

(* What parseObject returns: the object as a tree and *next, NULL after   *)
(* setError, or nothing defined when it read outside the string.          *)
Parsed(t, next) == [kind |-> "ok", t |-> t, next |-> next]
SyntaxError == [kind |-> "err"]
OutOfString == [kind |-> "ub"]

unescape(q) ==
    CASE q = "n" -> "\n"
      [] q = "r" -> "\r"
      [] q = "t" -> "\t"
      [] OTHER -> q

(* The string loop.  A backslash takes the byte after it, whatever it is, *)
(* and the loop goes on after that byte: past the NUL when the backslash  *)
(* was the last byte of the text.                                         *)
RECURSIVE parseString(_, _, _)
parseString(s, p, acc) ==
    IF p > Len(s) THEN OutOfString
    ELSE IF CharAt(s, p) = NUL THEN SyntaxError
    ELSE IF CharAt(s, p) = "\"" THEN Parsed(tStr(acc), p + 1)
    ELSE IF CharAt(s, p) = "\\"
         THEN parseString(s, p + 2, Append(acc, unescape(CharAt(s, p + 1))))
         ELSE parseString(s, p + 1, Append(acc, CharAt(s, p)))

RECURSIVE parseObject(_, _)
RECURSIVE parseElements(_, _, _, _, _)
parseObject(s, p0) ==
    LET p == parserConsumeSpace(s, p0)
        c == CharAt(s, p)
    IN IF (c = "-" /\ isdigit(CharAt(s, p + 1))) \/ isdigit(c)
       THEN LET end == intEnd(s, p, 0)
                n == atoi(SubSeq(s, p + 1, end))
            IN IF n.ok THEN Parsed(tInt(n.i), end) ELSE OutOfString
       ELSE IF c = "[" \/ c = "(" \/ (c = "'" /\ CharAt(s, p + 1) = "(")
       THEN LET quoted == IF c = "'" THEN 1 ELSE 0
                b == p + quoted
                type == IF CharAt(s, b) = "[" THEN OBJ_TYPE_LIST ELSE OBJ_TYPE_TUPLE
            IN parseElements(s, b + 1, type, quoted, <<>>)
       ELSE IF issymbol(c)
       THEN LET quoted == IF c = "'" THEN 1 ELSE 0
                b == p + quoted
                end == symbolEnd(s, b)
            IN Parsed([tSym(SubSeq(s, b + 1, end)) EXCEPT !.quoted = quoted], end)
       ELSE IF c = "#"
       THEN IF CharAt(s, p + 1) # "t" /\ CharAt(s, p + 1) # "f" THEN SyntaxError
            ELSE Parsed(tBool(IF CharAt(s, p + 1) = "t" THEN 1 ELSE 0), p + 2)
       ELSE IF c = "\"" THEN parseString(s, p + 1, <<>>)
       ELSE SyntaxError
(* Every element is taken into the tuple. *)
notTupleElementNever(t) == FALSE

(* element->type != OBJ_TYPE_SYMBOL || element->str.len != 1 *)
notTupleElement(t) == t.type # OBJ_TYPE_SYMBOL \/ Len(t.str) # 1

(* The element loop of a list or a tuple, from position p on. *)
parseElements(s, p, type, quoted, acc) ==
    LET q == parserConsumeSpace(s, p) IN
    IF \/ type = OBJ_TYPE_LIST /\ CharAt(s, q) = "]"
       \/ type = OBJ_TYPE_TUPLE /\ CharAt(s, q) = ")"
    THEN Parsed([tList(acc) EXCEPT !.type = type, !.quoted = quoted], q + 1)
    ELSE LET element == parseObject(s, q) IN
         IF element.kind # "ok" THEN element
         ELSE IF type = OBJ_TYPE_TUPLE /\ notTupleElement(element.t)
              THEN SyntaxError
              ELSE parseElements(s, element.next, type, quoted, Append(acc, element.t))

(* ------------------------------ programs ------------------------------ *)
(* The lines typed at the prompt, as parseObject returns them.            *)
n_p == <<"p">>
n_q == <<"q">>
n_foo == <<"f", "o", "o">>
s_a == <<"a">>
s_b == <<"b">>
s_hi == <<"h", "i">>

pCapture == tList(<<tInt(1), tInt(2), tInt(3), tTuple(<<"x", "y">>)>>)
pCaptureTwice == tList(<<tInt(1), tInt(2), tTuple(<<"x", "x">>)>>)
pCaptureShort == tList(<<tInt(1), tTuple(<<"x", "y">>)>>)
pCaptureShortLocals == tList(<<tInt(5), tTuple(<<"x">>), tInt(1), tTuple(<<"x", "y">>)>>)
pCaptureAgain == tList(<<tInt(1), tTuple(<<"x">>), tInt(2), tTuple(<<"y">>), tInt(3),
                         tTuple(<<"x">>)>>)
pLocalTwice == tList(<<tInt(5), tTuple(<<"x">>), tVar("x"), tVar("x"), tSym(n_add)>>)
pLocalSecondByte ==
    tList(<<tInt(5), tTuple(<<"x">>), tSym(<<"$", "x", "y">>), tVar("y")>>)
pLocalNoName == tList(<<tInt(5), tTuple(<<"x">>), tSym(<<"$">>)>>)

pSub == tList(<<tInt(3), tInt(2), tSym(n_sub)>>)
pDiv == tList(<<tInt(9), tInt(2), tInt(-7), tSym(n_div)>>)
pDivZero == tList(<<tInt(0), tInt(5), tSym(n_div)>>)
pMul == tList(<<tInt(3), tInt(-4), tSym(n_mul)>>)
pOverflow == tList(<<tInt(INT_MAX), tInt(1), tSym(n_add)>>)
pDivMin == tList(<<tInt(-1), tInt(INT_MIN), tSym(n_div)>>)
pMathType == tList(<<tInt(1), tStr(s_a), tSym(n_add)>>)

pLess == tList(<<tInt(1), tInt(2), tSym(n_lt)>>)
pGreaterEq == tList(<<tBool(0), tBool(1), tSym(n_ge)>>)
pStrings == tList(<<tStr(s_a), tStr(s_b), tSym(n_gt)>>)
pSymString == tList(<<tQSym(s_a), tStr(s_a), tSym(n_eq)>>)
pLists == tList(<<tList(<<tInt(1)>>), tList(<<tInt(2)>>), tSym(n_eq)>>)
pListTuple == tList(<<tList(<<tInt(1), tInt(2)>>), tQTuple(<<"a">>), tSym(n_le)>>)
pMismatch == tList(<<tInt(7), tInt(1), tStr(s_a), tSym(n_lt)>>)

pSort == tList(<<tList(<<tInt(3), tInt(1), tInt(2)>>), tSym(n_sort)>>)
pSortTwice == tList(<<tList(<<tInt(2), tInt(1)>>), tSym(n_sort), tSym(n_sort)>>)
pSortDup == tList(<<tList(<<tInt(2), tInt(1)>>), tSym(n_dup), tSym(n_sort)>>)
pSortMixed == tList(<<tList(<<tInt(1), tStr(s_a)>>), tSym(n_sort)>>)
pSortLocal ==
    tList(<<tList(<<tInt(2), tInt(1)>>), tTuple(<<"x">>), tVar("x"), tSym(n_sort),
            tVar("x")>>)
pSortQuoted ==
    tList(<<tInt(1), tList(<<tQTuple(<<"y">>)>>), tSym(n_sort), tSym(n_eval)>>)
pAppendQuoted ==
    tList(<<tInt(2), tList(<<tQTuple(<<"y">>)>>), tSym(n_append), tSym(n_eval)>>)

pAppend == tList(<<tInt(1), tList(<<tInt(2)>>), tSym(n_append)>>)
pPrepend == tList(<<tInt(1), tList(<<tInt(2)>>), tSym(n_prepend)>>)
pAppendSelf == tList(<<tList(<<tInt(1)>>), tSym(n_dup), tSym(n_append)>>)
pPrependSelf == tList(<<tList(<<tInt(1)>>), tSym(n_dup), tSym(n_prepend)>>)
pAppendTwice ==
    tList(<<tInt(1), tInt(2), tList(<<>>), tSym(n_append), tSym(n_append)>>)

pDef == tList(<<tList(<<tInt(1)>>), tQSym(n_p), tSym(n_def), tSym(n_p)>>)
pRedef ==
    tList(<<tList(<<tInt(1)>>), tQSym(n_p), tSym(n_def),
            tList(<<tInt(2)>>), tQSym(n_p), tSym(n_def), tSym(n_p)>>)
pRedefNative ==
    tList(<<tList(<<tSym(n_drop)>>), tQSym(n_add), tSym(n_def), tInt(1), tInt(2),
            tSym(n_add)>>)
pRedefSelf ==
    tList(<<tList(<<tList(<<tInt(1)>>), tQSym(n_p), tSym(n_def), tInt(2)>>),
            tQSym(n_p), tSym(n_def), tSym(n_p)>>)
pRedefSelfUnshared ==
    tList(<<tInt(2), tList(<<tList(<<tInt(1)>>), tQSym(n_p), tSym(n_def)>>),
            tSym(n_append), tQSym(n_p), tSym(n_def), tSym(n_p)>>)
pDefType == tList(<<tInt(1), tQSym(n_p), tSym(n_def)>>)
pDefTypeLocals == tList(<<tInt(5), tTuple(<<"x">>), tInt(1), tQSym(n_p), tSym(n_def)>>)
pEvalType == tList(<<tList(<<tInt(1)>>), tInt(2), tSym(n_eval)>>)
pCompareOne == tList(<<tInt(1), tSym(n_lt)>>)
pSortType == tList(<<tInt(1), tSym(n_sort)>>)
pUpevalType == tList(<<tInt(1), tSym(n_upeval)>>)
pAppendType == tList(<<tInt(1), tInt(2), tSym(n_append)>>)
pRecurse == tList(<<tList(<<tSym(n_p)>>), tQSym(n_p), tSym(n_def), tSym(n_p)>>)
pUnbound == tList(<<tInt(1), tSym(n_foo), tInt(2)>>)

pIfTrue == tList(<<tInt(7), tList(<<tBool(1)>>), tList(<<tInt(1)>>), tSym(n_if)>>)
pIfFalse == tList(<<tInt(7), tList(<<tBool(0)>>), tList(<<tInt(1)>>), tSym(n_if)>>)
pIfelseTrue ==
    tList(<<tList(<<tBool(1)>>), tList(<<tInt(1)>>), tList(<<tInt(2)>>), tSym(n_ifelse)>>)
pIfelseFalse ==
    tList(<<tList(<<tBool(0)>>), tList(<<tInt(1)>>), tList(<<tInt(2)>>), tSym(n_ifelse)>>)
pIfNotBool == tList(<<tList(<<tInt(5)>>), tList(<<tInt(1)>>), tSym(n_if)>>)
pIfEmpty ==
    tList(<<tList(<<>>), tList(<<tInt(1)>>), tList(<<tInt(2)>>), tSym(n_ifelse)>>)
pIfCondFails == tList(<<tList(<<tSym(n_foo)>>), tList(<<tInt(1)>>), tSym(n_if)>>)
pIfelseLiteralTrue ==
    tList(<<tBool(1), tList(<<tInt(1)>>), tList(<<tInt(2)>>), tSym(n_ifelse)>>)
pIfelseLiteralFalse ==
    tList(<<tBool(0), tList(<<tInt(1)>>), tList(<<tInt(2)>>), tSym(n_ifelse)>>)

pWhile ==
    tList(<<tInt(0), tTuple(<<"i">>),
            tList(<<tVar("i"), tInt(2), tSym(n_lt)>>),
            tList(<<tVar("i"), tInt(1), tSym(n_add), tTuple(<<"i">>)>>),
            tSym(n_while), tVar("i")>>)
pWhileNever == tList(<<tList(<<tBool(0)>>), tList(<<tInt(1)>>), tSym(n_while)>>)
pWhileForever == tList(<<tList(<<tBool(1)>>), tList(<<>>), tSym(n_while)>>)
pWhileGrows == tList(<<tList(<<tBool(1)>>), tList(<<tInt(1)>>), tSym(n_while)>>)
pWhileAppends ==
    tList(<<tList(<<>>), tList(<<tBool(1)>>),
            tList(<<tInt(1), tSym(n_swap), tSym(n_append)>>), tSym(n_while)>>)
pWhileQuoted ==
    tList(<<tInt(0), tTuple(<<"i">>),
            tList(<<tVar("i"), tInt(2), tSym(n_lt)>>),
            tList(<<tQSym(s_a), tSym(n_drop), tQTuple(<<"i">>), tSym(n_drop),
                    tVar("i"), tInt(1), tSym(n_add), tTuple(<<"i">>)>>),
            tSym(n_while)>>)

pEval == tList(<<tList(<<tInt(1), tTuple(<<"x">>)>>), tSym(n_eval), tVar("x")>>)
pUpevalTop == tList(<<tList(<<tInt(1), tTuple(<<"x">>)>>), tSym(n_upeval), tVar("x")>>)
pUpevalProc ==
    tList(<<tList(<<tInt(3), tTuple(<<"x">>),
                    tList(<<tTuple(<<"x">>), tVar("y"), tSym(n_dup)>>), tSym(n_upeval),
                    tVar("x")>>),
            tQSym(n_p), tSym(n_def),
            tInt(8), tTuple(<<"y">>), tInt(9), tSym(n_p), tVar("x")>>)
pUpevalFails ==
    tList(<<tList(<<tInt(3), tTuple(<<"x">>), tList(<<tVar("x")>>), tSym(n_upeval)>>),
            tQSym(n_p), tSym(n_def), tSym(n_p)>>)
pUpevalNested ==
    tList(<<tList(<<tList(<<tList(<<tTuple(<<"x">>)>>), tSym(n_upeval)>>), tSym(n_upeval)>>),
            tQSym(n_q), tSym(n_def),
            tList(<<tInt(4), tTuple(<<"x">>), tInt(5), tSym(n_q), tVar("x")>>),
            tQSym(n_p), tSym(n_def), tInt(6), tSym(n_p)>>)

pIsolation ==
    tList(<<tInt(5), tTuple(<<"x">>),
            tList(<<tInt(1), tTuple(<<"x">>), tInt(2), tTuple(<<"y">>)>>),
            tQSym(n_p), tSym(n_def), tSym(n_p), tVar("x")>>)
pIsolationFails ==
    tList(<<tInt(5), tTuple(<<"x">>),
            tList(<<tInt(1), tTuple(<<"x">>), tSym(n_foo)>>),
            tQSym(n_p), tSym(n_def), tSym(n_p)>>)

pGetFirst == tList(<<tList(<<tInt(1), tInt(2), tInt(3)>>), tInt(0), tSym(n_getat)>>)
pGetLast == tList(<<tList(<<tInt(1), tInt(2), tInt(3)>>), tInt(-1), tSym(n_getat)>>)
pGetBeyond == tList(<<tList(<<tInt(1), tInt(2), tInt(3)>>), tInt(9), tSym(n_getat)>>)
pGetBefore == tList(<<tList(<<tInt(1), tInt(2), tInt(3)>>), tInt(-4), tSym(n_getat)>>)
pGetEmpty == tList(<<tList(<<>>), tInt(0), tSym(n_getat)>>)
pGetString == tList(<<tStr(s_hi), tInt(-1), tSym(n_getat)>>)
pGetTuple == tList(<<tQTuple(<<"a", "b">>), tInt(1), tSym(n_getat)>>)
pGetType == tList(<<tInt(1), tInt(0), tSym(n_getat)>>)

pDup == tList(<<tInt(5), tTuple(<<"x">>), tInt(1), tInt(2), tSym(n_dup)>>)
pDrop == tList(<<tInt(5), tTuple(<<"x">>), tInt(1), tInt(2), tSym(n_drop)>>)
pSwap == tList(<<tInt(5), tTuple(<<"x">>), tInt(1), tInt(2), tInt(3), tSym(n_swap)>>)
pDropEmpty == tList(<<tSym(n_drop)>>)

pMap ==
    tList(<<tList(<<tInt(1), tInt(2), tInt(3)>>), tList(<<tSym(n_dup), tSym(n_mul)>>),
            tSym(n_map)>>)
pMapLocals ==
    tList(<<tInt(7), tTuple(<<"l">>),
            tList(<<tInt(1)>>), tList(<<tTuple(<<"j">>), tVar("l")>>),
            tSym(n_map), tVar("j")>>)
pMapNames ==
    tList(<<tList(<<tInt(1), tInt(2)>>),
            tList(<<tTuple(<<"f">>), tVar("f"), tTuple(<<"e">>), tVar("e")>>),
            tSym(n_map)>>)
pForeachFails ==
    tList(<<tList(<<tInt(1), tInt(2)>>), tList(<<tSym(n_foo)>>), tSym(n_foreach), tInt(3)>>)
pFirst == tList(<<tList(<<tInt(4), tInt(5)>>), tSym(n_first)>>)
pRest == tList(<<tList(<<tInt(1), tInt(2), tInt(3)>>), tSym(n_rest)>>)
pRestEmpty == tList(<<tList(<<>>), tSym(n_rest)>>)
pRestBelow == tList(<<tInt(5), tList(<<tInt(1)>>), tSym(n_rest)>>)
pRestTuple == tList(<<tList(<<tInt(1), tTuple(<<"a">>), tInt(2)>>), tSym(n_rest)>>)
pRestLocals ==
    tList(<<tInt(7), tTuple(<<"f">>), tInt(8), tTuple(<<"n">>),
            tList(<<tInt(1), tInt(2)>>), tSym(n_rest), tVar("f"), tVar("n")>>)
pCat == tList(<<tList(<<tInt(1)>>), tList(<<tInt(2)>>), tSym(n_cat)>>)
pLen == tList(<<tStr(s_hi), tSym(n_len), tList(<<tInt(1)>>), tSym(n_len)>>)
pLenType == tList(<<tInt(1), tSym(n_len)>>)
pPrint == tList(<<tInt(1), tSym(n_print), tStr(s_a), tSym(n_printnl), tSym(n_showstack)>>)
pPrintEmpty == tList(<<tSym(n_print)>>)
pPrintnlEmpty == tList(<<tSym(n_printnl)>>)
pQuoted == tList(<<tQSym(s_a), tQTuple(<<"a", "b">>)>>)

OneLine ==
    {pCapture, pCaptureTwice, pCaptureShort, pCaptureAgain, pLocalTwice,
     pLocalSecondByte, pLocalNoName,
     pSub, pDiv, pDivZero, pDivMin, pMul, pOverflow, pMathType,
     pLess, pGreaterEq, pStrings, pSymString, pLists, pListTuple, pMismatch,
     pSort, pSortTwice, pSortDup, pSortMixed, pSortLocal, pSortQuoted,
     pAppend, pPrepend, pAppendSelf, pAppendTwice,
     pDef, pRedef, pRedefNative, pRedefSelf, pRedefSelfUnshared, pDefType, pRecurse, pUnbound,
     pIfTrue, pIfFalse, pIfelseTrue, pIfelseFalse, pIfNotBool, pIfEmpty,
     pIfCondFails, pIfelseLiteralTrue, pIfelseLiteralFalse,
     pWhile, pWhileNever, pWhileForever, pWhileGrows, pWhileAppends, pWhileQuoted,
     pEval, pUpevalTop, pUpevalProc, pUpevalFails, pUpevalNested,
     pIsolation, pIsolationFails,
     pGetFirst, pGetLast, pGetBeyond, pGetBefore, pGetEmpty, pGetString,
     pGetTuple, pGetType,
     pDup, pDrop, pSwap, pDropEmpty,
     pMap, pMapLocals, pMapNames, pForeachFails, pFirst, pRest, pRestEmpty, pRestLocals,
     pCat, pLen, pLenType, pPrint, pPrintEmpty, pPrintnlEmpty, pQuoted, pAppendQuoted,
     pDefTypeLocals, pEvalType, pCompareOne, pSortType, pUpevalType, pAppendType,
     pCaptureShortLocals, pPrependSelf, pRestBelow, pRestTuple}

pDefBody == tList(<<tList(<<tList(<<tInt(1)>>), tQSym(n_p), tSym(n_def), tInt(2)>>),
                    tQSym(n_p), tSym(n_def)>>)
pCall == tList(<<tSym(n_p)>>)
pLeaveOne == tList(<<tInt(4), tTuple(<<"x">>), tInt(1), tSym(n_foo)>>)
pUseLeft == tList(<<tVar("x"), tSym(n_add)>>)

(* Lines as the user types them.  repl puts the text between [ and ] and  *)
(* hands it to parseObject; a text that does not parse is reported and    *)
(* the next line is read.                                                 *)
lTupleData == <<"1", " ", "(", "a", ")", " ", "'", "(", "c", " ", "d", ")", " ", "d", "u", "p", " ", "0", " ", "g", "e", "t", "@">>
lTupleInList == <<"[", "(", "a", ")", "]", " ", "'", "(", "b", ")", " ", "s", "w", "a", "p", " ", "-", ">">>
lTupleQuotedName == <<"1", " ", "(", "'", "a", ")", " ", "$", "a">>
lTupleLong == <<"1", " ", "2", " ", "(", "a", "b", ")">>
lTupleInt == <<"1", " ", "(", "1", ")">>
lTupleList == <<"(", "[", "a", "]", ")">>

TypedLines == {lTupleData, lTupleInList, lTupleQuotedName, lTupleLong, lTupleInt, lTupleList}

replBuf(t) == <<"[">> \o t \o <<"]">>

ParsedLines ==
    {parseObject(replBuf(t), 0).t :
        t \in {u \in TypedLines : parseObject(replBuf(u), 0).kind = "ok"}}

(* What the user types: one line, or two lines of which the second uses    *)
(* what the first has left.                                                *)
Sessions ==
    {<<p>> : p \in OneLine \cup ParsedLines}
        \cup {<<pDefBody, pCall>>, <<pLeaveOne, pUseLeft>>}

Programs ==
    {ses[k] : k \in 1..2, ses \in {t \in Sessions : Len(t) = 2}} \cup OneLine \cup ParsedLines

(* -------------------------------- repl -------------------------------- *)
(* One round of repl's loop: the line read parses to the list p, which is *)
(* evaluated in the top-level frame.                                      *)
ReplRead(p) ==
    /\ status = "ok"
    /\ ctl = <<>>
    /\ \E ses \in Sessions :
          /\ Len(ses) > nlines
          /\ SubSeq(ses, 1, nlines) = lines
          /\ p = ses[nlines + 1]
    /\ UNCHANGED <<io, stack, procs, frames, frame, result, status>>
    /\ LET r == allocParsed(heap, p) IN
       /\ r.a # NULL
       /\ heap' = r.h
       /\ ctl' = <<Activation("repl", r.a), Activation("eval", r.a)>>
    /\ lines' = Append(lines, p)
    /\ ret' = NoRet

(* eval has returned to repl: release(list). *)
ReplDone ==
    /\ status = "ok"
    /\ ctl # <<>>
    /\ Top.k = "repl"
    /\ ret # NoRet
    /\ result' = ret
    /\ heap' = release(heap, Top.l)
    /\ ctl' = <<>>
    /\ ret' = NoRet
    /\ UNCHANGED <<io, stack, procs, frames, frame, lines, status>>

(* --------------------------- specification ---------------------------- *)
Next ==
    \/ \E p \in Programs : ReplRead(p)
    \/ ReplDone
    \/ EvalEnd
    \/ EvalFreed
    \/ EvalQuotedTuple
    \/ EvalCapture
    \/ EvalCaptureFail
    \/ EvalQuotedSymbol
    \/ EvalPushLocal
    \/ EvalUnboundLocal
    \/ EvalUnboundProc
    \/ EvalPush
    \/ EvalCallProc
    \/ EvalProcReturn
    \/ EvalCprocReturn
    \/ CallBasicMath
    \/ CallCompare
    \/ CallSortList
    \/ CallListAppend
    \/ CallListGetAt
    \/ CallLen
    \/ CallPrint
    \/ CallPrintnl
    \/ CallShowStack
    \/ CallDef
    \/ CallEval
    \/ ProcEvalReturn
    \/ CallUpeval
    \/ ProcUpevalReturn
    \/ CallIf
    \/ ProcIfCond
    \/ ProcIfBranch

Spec == Init /\ [][Next]_vars

(* ------------------------- what a handle shows ------------------------ *)
(* The value seen through the handle a: type, payload and, for a list or  *)
(* a tuple, the values of the elements in order.  Refcounts are not part  *)
(* of it.                                                                 *)
RECURSIVE ValueOf(_, _)
ValueOf(h, a) ==
    IF a = NULL THEN [type |-> 0]
    ELSE [type |-> h[a].type, i |-> h[a].i, str |-> h[a].str, quoted |-> h[a].quoted,
          ele |-> [k \in 1..Len(h[a].ele) |-> ValueOf(h, h[a].ele[k])]]

IsInt(h, a, n) == a # NULL /\ h[a].type = OBJ_TYPE_INT /\ h[a].i = n
IsBool(h, a, b) == a # NULL /\ h[a].type = OBJ_TYPE_BOOL /\ h[a].i = b
IsIntList(h, a, ns) ==
    /\ a # NULL
    /\ h[a].type = OBJ_TYPE_LIST
    /\ Len(h[a].ele) = Len(ns)
    /\ \A k \in 1..Len(ns) : IsInt(h, h[a].ele[k], ns[k])

(* The line read last has been evaluated and repl is back at the prompt. *)
Evaluated(p) == nlines >= 1 /\ line = p /\ ctl = <<>>
TopLocal(c) == LocalOf(frames[TopFrame].locals, c)

(* ------------------------------- C1 ----------------------------------- *)
(* C1  Tuple capture.  When eval stands at an unquoted tuple of n symbols  *)
(* and the stack holds d >= n values, the step leaves the first d-n slots  *)
(* as they were and nothing above them; the local named by the first byte *)
(* of tuple element i (the last i for a repeated name) is the handle that *)
(* was in slot d-n+i, showing the same value; every other local of the    *)
(* frame, every other frame and the current frame pointer are unchanged.  *)
AtCapture ==
    /\ AtElement
    /\ Cur.type = OBJ_TYPE_TUPLE
    /\ Cur.quoted = 0
    /\ Len(stack) >= Len(Cur.ele)

CaptureStep ==
    LET n == Len(Cur.ele)
        d == Len(stack)
        nm == [i \in 1..n |-> CharAt(heap[Cur.ele[i]].str, 0)]
        after == frames'[frame].locals
    IN /\ Len(stack') = d - n
       /\ \A k \in 1..(d - n) : stack'[k] = stack[k]
       /\ \A i \in 1..n :
             (\A m \in (i + 1)..n : nm[m] # nm[i]) =>
                /\ LocalOf(after, nm[i]) = stack[d - n + i]
                /\ ValueOf(heap', stack[d - n + i]) = ValueOf(heap, stack[d - n + i])
       /\ \A c \in (DOMAIN Locals \cup DOMAIN after) \ {nm[i] : i \in 1..n} :
             LocalOf(after, c) = LocalOf(Locals, c)
       /\ \A f \in FrameId \ {frame} : frames'[f] = frames[f]
       /\ frame' = frame
       /\ ret' = NoRet

C1_TupleCapture == [][AtCapture => CaptureStep]_vars

(* After "1 2 3 (x y)": 1 is left on the stack, x is 2 and y is 3. *)
C1_Witness ==
    /\ Evaluated(pCapture)
    /\ result = 0
    /\ Len(stack) = 1
    /\ IsInt(heap, stack[1], 1)
    /\ IsInt(heap, TopLocal("x"), 2)
    /\ IsInt(heap, TopLocal("y"), 3)

(* ------------------------------- C2 ----------------------------------- *)
(* C2  Push from a local.  At an unquoted symbol whose first byte is $ the *)
(* slot is the second byte of the name.  When that local of the current   *)
(* frame is bound the step pushes that handle (depth +1), the locals of   *)
(* every frame stay as they are and the value is unchanged; when it is    *)
(* unbound eval returns 1 with the stack and all locals unchanged.  The   *)
(* line "5 (x) $x $x +" leaves the single Int 10.                         *)
AtLocal == AtSymbol /\ CharAt(Cur.str, 0) = "$"

PushLocalStep ==
    LET o == LocalOf(Locals, CharAt(Cur.str, 1)) IN
    IF o # NULL
    THEN /\ stack' = Append(stack, o)
         /\ ValueOf(heap', o) = ValueOf(heap, o)
         /\ frames' = frames
         /\ frame' = frame
         /\ ret' = NoRet
         /\ ctl' = [ctl EXCEPT ![Len(ctl)].j = @ + 1]
    ELSE /\ ret' = 1
         /\ ctl' = Pop(ctl)
         /\ stack' = stack
         /\ frames' = frames
         /\ frame' = frame
         /\ heap' = heap

PushTwiceAdds ==
    Evaluated(pLocalTwice) =>
        /\ result = 0
        /\ Len(stack) = 1
        /\ IsInt(heap, stack[1], 10)
        /\ IsInt(heap, TopLocal("x"), 5)

C2_PushLocal == [][AtLocal => PushLocalStep]_vars /\ []PushTwiceAdds

(* After "5 (x) $xy $y": $xy has pushed x and $y, unbound, has failed. *)
C2_Witness ==
    /\ Evaluated(pLocalSecondByte)
    /\ result = 1
    /\ Len(stack) = 1
    /\ stack[1] = TopLocal("x")
    /\ IsInt(heap, stack[1], 5)

(* ------------------------------- C3 ----------------------------------- *)
(* C3  Frame isolation.  The call of a list-bound procedure makes a new   *)
(* frame with no local bound, whose parent is the caller's frame.  While  *)
(* the call is pending and no upeval is running inside it, no step        *)
(* changes a local, or the value of a local, of the caller's frame or of  *)
(* any frame that existed when the call was made; the return, with        *)
(* success or with an error, frees the callee's frame and makes the       *)
(* caller's frame current again.                                          *)
AtProcCall == AtCall /\ Proc # NULL /\ procs[Proc].cproc = ""
Pending(i) == ctl[i].k = "eval" /\ ctl[i].st = "proc"
UpevalAbove(i) == \E m \in (i + 1)..Len(ctl) : ctl[m].k = "procUpeval"

(* The frames that existed when the call at ctl[i] was made. *)
Outer(i) ==
    {TopFrame} \cup {ctl[m].oldsf : m \in {n \in 1..i : ctl[n].oldsf # NULL}}

LocalsKept(g) ==
    /\ frames'[g].locals = frames[g].locals
    /\ \A c \in DOMAIN frames[g].locals :
          ValueOf(heap', frames[g].locals[c]) = ValueOf(heap, frames[g].locals[c])

IsolationStep ==
    /\ AtProcCall =>
          /\ ~frames[frame'].used
          /\ DOMAIN frames'[frame'].locals = {}
          /\ frames'[frame'].prev = frame
          /\ LocalsKept(frame)
    /\ \A i \in 1..Len(ctl) :
          (Pending(i) /\ ~UpevalAbove(i)) => \A g \in Outer(i) : LocalsKept(g)
    /\ (status = "ok" /\ ctl # <<>> /\ Pending(Len(ctl)) /\ ret # NoRet) =>
          /\ frame' = Top.oldsf
          /\ ~frames'[frame].used
          /\ ret' = IF ret = 0 THEN NoRet ELSE ret

C3_FrameIsolation == [][IsolationStep]_vars

(* After "5 (x) [1 (x) 2 (y)] 'p def p $x": p has captured x and y in its  *)
(* own frame; at the top level x is still 5 and y is unbound.             *)
C3_Witness ==
    /\ Evaluated(pIsolation)
    /\ result = 0
    /\ Len(stack) = 1
    /\ IsInt(heap, stack[1], 5)
    /\ IsInt(heap, TopLocal("x"), 5)
    /\ TopLocal("y") = NULL
    /\ frame = TopFrame

(* ------------------------------- C4 ----------------------------------- *)
(* C4  upeval.  upeval pops its list and evaluates it with the current    *)
(* frame set to the parent of the frame it was called in, so that what    *)
(* eval does with the current frame (captures, $x) is done with the       *)
(* caller's locals; while it runs, the frame it was called in is never    *)
(* current and its locals do not change; a list-bound procedure called    *)
(* from the list gets a new frame whose parent is the caller's frame; at  *)
(* the return, with success or with an error, the frame upeval was called *)
(* in is current again.  Without a parent the list is evaluated in the    *)
(* frame itself, the frame stays current and the return gives back what   *)
(* eval returned: the effect of eval.                                     *)
AtUpeval ==
    /\ AtCall
    /\ Proc # NULL
    /\ procs[Proc].cproc = "procUpeval"
    /\ checkStackType(heap, stack, <<{OBJ_TYPE_LIST}>>) = 0

Saved(m) == ctl[m].k = "procUpeval" /\ ctl[m].oldsf # NULL

(* The list of the upeval at ctl[m] is what eval is running now. *)
RunsListOf(m) == m = Len(ctl) - 1 /\ Top.k = "eval" /\ Top.st = "loop" /\ Top.l = ctl[m].l

UpevalStep ==
    /\ AtUpeval =>
          /\ frame' = IF frames[frame].prev # NULL THEN frames[frame].prev ELSE frame
          /\ stack' = Below(stack, 1)
          /\ ctl'[Len(ctl')] = Activation("eval", stack[Len(stack)])
          /\ ctl'[Len(ctl') - 1].k = "procUpeval"
          /\ ctl'[Len(ctl') - 1].oldsf = IF frames[frame].prev # NULL THEN frame ELSE NULL
          /\ \A g \in FrameId : frames'[g].locals = frames[g].locals
          /\ heap' = heap
    /\ \A m \in 1..Len(ctl) :
          Saved(m) =>
             /\ frames'[ctl[m].oldsf].locals = frames[ctl[m].oldsf].locals
             /\ (RunsListOf(m) /\ AtProcCall) =>
                   frames'[frame'].prev = frames[ctl[m].oldsf].prev
    /\ (status = "ok" /\ ctl # <<>> /\ Top.k = "procUpeval" /\ ret # NoRet) =>
          /\ frame' = IF Top.oldsf # NULL THEN Top.oldsf ELSE frame
          /\ ret' = ret
          /\ ctl' = Pop(ctl)
          /\ frames' = frames
          /\ stack' = stack
          /\ heap' = release(heap, Top.l)

UpevalFrames ==
    \A m \in 1..Len(ctl) :
        Saved(m) =>
           /\ frame # ctl[m].oldsf
           /\ frames[ctl[m].oldsf].used
           /\ RunsListOf(m) => frame = frames[ctl[m].oldsf].prev

C4_Upeval == [][UpevalStep]_vars /\ []UpevalFrames

(* After "[3 (x) [(x) $y dup] upeval $x] 'p def 8 (y) 9 p $x": the list    *)
(* given to upeval has captured 9 in the x of the top level and read its  *)
(* y; the x of p is still 3.                                              *)
C4_Witness ==
    /\ Evaluated(pUpevalProc)
    /\ result = 0
    /\ Len(stack) = 4
    /\ IsInt(heap, stack[1], 8)
    /\ IsInt(heap, stack[2], 8)
    /\ IsInt(heap, stack[3], 3)
    /\ IsInt(heap, stack[4], 9)
    /\ IsInt(heap, TopLocal("x"), 9)
    /\ frame = TopFrame

(* ------------------------------- C5 ----------------------------------- *)
(* C5  Arithmetic operand order.  At a call of + - * / with the Int x     *)
(* below the Int y on top (x not 0 for /), the step replaces the two      *)
(* operands by one new Int equal to y OP x, the quotient truncated toward *)
(* zero; the depth goes down by one and the slots below keep their        *)
(* handles and values.  "3 2 -" leaves -1.  Violated: y OP x can leave    *)
(* the range of int, as in "2147483647 1 +" and "-1 -2147483648 /", and   *)
(* then the C expression is undefined and no such Int is pushed.          *)
AtMath ==
    /\ AtCall
    /\ Proc # NULL
    /\ procs[Proc].cproc = "procBasicMath"
    /\ checkStackType(heap, stack, <<{OBJ_TYPE_INT}, {OBJ_TYPE_INT}>>) = 0

IsQuotient(q, y, x) ==
    LET rem == y - q * x IN
    /\ Abs(rem) < Abs(x)
    /\ rem = 0 \/ (rem < 0) = (y < 0)

MathStep ==
    LET d == Len(stack)
        y == heap[stack[d]].i
        x == heap[stack[d - 1]].i
        op == procs[Proc].name
        res == heap'[stack'[d - 1]]
    IN (op = n_div => x # 0) =>
          /\ Len(stack') = d - 1
          /\ \A k \in 1..(d - 2) :
                stack'[k] = stack[k] /\ ValueOf(heap', stack[k]) = ValueOf(heap, stack[k])
          /\ IsFree(heap, stack'[d - 1])
          /\ res.type = OBJ_TYPE_INT
          /\ res.refcount = 1
          /\ op = n_add => res.i = y + x
          /\ op = n_sub => res.i = y - x
          /\ op = n_mul => res.i = y * x
          /\ op = n_div => IsQuotient(res.i, y, x)
          /\ ret' = NoRet
          /\ status' = "ok"
          /\ frames' = frames

ThreeTwoMinus ==
    Evaluated(pSub) => result = 0 /\ Len(stack) = 1 /\ IsInt(heap, stack[1], -1)

C5_OperandOrder == [][AtMath => MathStep]_vars /\ []ThreeTwoMinus

(* After "9 2 -7 /": -7 / 2 is -3, and the 9 below is untouched. *)
C5_Witness ==
    /\ Evaluated(pDiv)
    /\ result = 0
    /\ Len(stack) = 2
    /\ IsInt(heap, stack[1], 9)
    /\ IsInt(heap, stack[2], -3)

(* ------------------------------- C6 ----------------------------------- *)
(* C6  Comparison operators.  At a call of a comparison with a below b on *)
(* top and the two of comparable types, the step replaces the operands by *)
(* one new Bool that is true exactly when (Order(a, b) OP 0), where Order *)
(* is the numeric order of Ints, false < true for Bools, the byte order   *)
(* of the text for Strings and Symbols, and the order of the lengths for  *)
(* Lists and Tuples; procCompare does so for each of the six operator     *)
(* names.  "1 2 <" pushes #t, "[1] [2] ==" pushes #t.                     *)
Texts == {OBJ_TYPE_STRING, OBJ_TYPE_SYMBOL}
Containers == {OBJ_TYPE_LIST, OBJ_TYPE_TUPLE}

Comparable(a, b) ==
    \/ a.type = OBJ_TYPE_INT /\ b.type = OBJ_TYPE_INT
    \/ a.type = OBJ_TYPE_BOOL /\ b.type = OBJ_TYPE_BOOL
    \/ a.type \in Texts /\ b.type \in Texts
    \/ a.type \in Containers /\ b.type \in Containers

(* s comes before t byte by byte; a proper prefix comes first. *)
TextBefore(s, t) ==
    \E k \in 0..Len(s) :
        /\ k <= Len(t)
        /\ SubSeq(s, 1, k) = SubSeq(t, 1, k)
        /\ \/ k = Len(s) /\ k < Len(t)
           \/ k < Len(s) /\ k < Len(t) /\ Ord(s[k + 1]) < Ord(t[k + 1])

Before(a, b) ==
    IF a.type = OBJ_TYPE_INT \/ a.type = OBJ_TYPE_BOOL THEN a.i < b.i
    ELSE IF a.type \in Texts THEN TextBefore(a.str, b.str)
    ELSE Len(a.ele) < Len(b.ele)

Order(a, b) == IF Before(a, b) THEN -1 ELSE IF Before(b, a) THEN 1 ELSE 0

Holds(op, cmp) ==
    CASE op = n_eq -> cmp = 0
      [] op = n_ne -> cmp # 0
      [] op = n_gt -> cmp > 0
      [] op = n_lt -> cmp < 0
      [] op = n_ge -> cmp >= 0
      [] op = n_le -> cmp <= 0

AtCompare ==
    /\ AtCall
    /\ Proc # NULL
    /\ procs[Proc].cproc = "procCompare"
    /\ checkStackLen(stack, 2) = 0
    /\ Comparable(heap[stack[Len(stack) - 1]], heap[stack[Len(stack)]])

CompareStep ==
    LET d == Len(stack)
        a == heap[stack[d - 1]]
        b == heap[stack[d]]
        res == heap'[stack'[d - 1]]
    IN /\ Len(stack') = d - 1
       /\ \A k \in 1..(d - 2) :
             stack'[k] = stack[k] /\ ValueOf(heap', stack[k]) = ValueOf(heap, stack[k])
       /\ IsFree(heap, stack'[d - 1])
       /\ res.type = OBJ_TYPE_BOOL
       /\ res.i = IF Holds(procs[Proc].name, Order(a, b)) THEN 1 ELSE 0
       /\ ret' = NoRet
       /\ frames' = frames

(* What procCompare does here under each of the six names. *)
CompareNames ==
    AtCompare =>
       LET d == Len(stack)
           a == heap[stack[d - 1]]
           b == heap[stack[d]]
       IN \A op \in {n_eq, n_ne, n_gt, n_lt, n_ge, n_le} :
             \A r \in procCompare(heap, stack, op) :
                /\ r.err = 0
                /\ Len(r.s) = d - 1
                /\ r.h[r.s[d - 1]].type = OBJ_TYPE_BOOL
                /\ r.h[r.s[d - 1]].i = IF Holds(op, Order(a, b)) THEN 1 ELSE 0

CompareExamples ==
    /\ Evaluated(pLess) => result = 0 /\ Len(stack) = 1 /\ IsBool(heap, stack[1], 1)
    /\ Evaluated(pStrings) => result = 0 /\ Len(stack) = 1 /\ IsBool(heap, stack[1], 0)
    /\ Evaluated(pGreaterEq) => result = 0 /\ Len(stack) = 1 /\ IsBool(heap, stack[1], 0)

HeldBy(c) ==
    {c[m].l : m \in {n \in 1..Len(c) : c[n].l # NULL /\ ~c[n].dangling}}
    \cup {c[m].cond : m \in {n \in 1..Len(c) : c[n].cond # NULL}}
    \cup {c[m].ifbranch : m \in {n \in 1..Len(c) : c[n].ifbranch # NULL}}
    \cup {c[m].elsebranch : m \in {n \in 1..Len(c) : c[n].elsebranch # NULL}}

LocalHandles ==
    UNION {{frames[f].locals[c] : c \in DOMAIN frames[f].locals} :
              f \in {g \in FrameId : frames[g].used}}

BoundLists == {procs[k].proc : k \in {n \in 1..Len(procs) : procs[n].proc # NULL}}

(* ------------------------------- C7 ----------------------------------- *)
(* C7  Copy-on-write.  At a call of sort, -> or <- on a list, the value   *)
(* seen through every handle other than the stack slot of the list (the   *)
(* other stack slots, the locals of every frame, the lists bound to       *)
(* procedures, the lists the running evals, ifs and whiles hold, and      *)
(* through them the elements of other lists) is the same after the step.  *)
(* Over every step, a list that stays bound to a procedure and a list     *)
(* that an eval is iterating over keep their value.  Violated: def on the *)
(* name of a running procedure releases the body under its eval when the  *)
(* table held the only reference, as in "2 [[1] 'p def] -> 'p def p".     *)
AtMutator ==
    /\ AtCall
    /\ Proc # NULL
    /\ \/ /\ procs[Proc].cproc = "procSortList"
          /\ checkStackType(heap, stack, <<{OBJ_TYPE_LIST}>>) = 0
       \/ /\ procs[Proc].cproc = "procListAppend"
          /\ checkStackType(heap, stack, <<OBJ_TYPE_ANY, {OBJ_TYPE_LIST}>>) = 0

OtherHandles ==
    {stack[k] : k \in 1..(Len(stack) - 1)} \cup LocalHandles \cup BoundLists \cup HeldBy(ctl)

MutatorStep ==
    /\ \A a \in OtherHandles : ValueOf(heap', a) = ValueOf(heap, a)
    /\ frames' = frames
    /\ procs' = procs

CodeKept ==
    /\ \A k \in 1..Len(procs) :
          (procs[k].proc # NULL /\ procs'[k].proc = procs[k].proc) =>
             ValueOf(heap', procs[k].proc) = ValueOf(heap, procs[k].proc)
    /\ \A m \in 1..Len(ctl) :
          (/\ m <= Len(ctl')
           /\ ctl[m].k \in {"eval", "repl"}
           /\ ctl'[m].k = ctl[m].k
           /\ ctl'[m].l = ctl[m].l) =>
             ValueOf(heap', ctl[m].l) = ValueOf(heap, ctl[m].l)

C7_CopyOnWrite == [][(AtMutator => MutatorStep) /\ CodeKept]_vars

(* After "[2 1] (x) $x sort $x": the sorted list is a new one, x shows    *)
(* the list as it was.                                                    *)
C7_Witness ==
    /\ Evaluated(pSortLocal)
    /\ result = 0
    /\ Len(stack) = 2
    /\ IsIntList(heap, stack[1], <<1, 2>>)
    /\ IsIntList(heap, stack[2], <<2, 1>>)
    /\ stack[2] = TopLocal("x")
    /\ stack[1] # stack[2]

(* ------------------------------- C8 ----------------------------------- *)
(* C8  Refcount discipline.  When eval has returned 0 to repl, the        *)
(* refcount of every object is the number of handles on it: stack slots,  *)
(* locals, elements of lists and tuples, bindings in the procedure table, *)
(* and the program list repl holds.                                       *)
Count(S) == Cardinality(S)

LocalSlots ==
    UNION {{<<f, c>> : c \in DOMAIN frames[f].locals} :
              f \in {g \in FrameId : frames[g].used}}

ElementSlots ==
    UNION {{<<b, k>> : k \in 1..Len(heap[b].ele)} :
              b \in {c \in Addr : ~IsFree(heap, c)}}

HandleCount(a) ==
    Count({k \in 1..Len(stack) : stack[k] = a})
    + Count({fc \in LocalSlots : frames[fc[1]].locals[fc[2]] = a})
    + Count({bk \in ElementSlots : heap[bk[1]].ele[bk[2]] = a})
    + Count({k \in 1..Len(procs) : procs[k].proc = a})
    + Count({m \in 1..Len(ctl) : ctl[m].k = "repl" /\ ctl[m].l = a})

Returned == status = "ok" /\ Len(ctl) = 1 /\ Top.k = "repl" /\ ret = 0

C8_RefcountDiscipline ==
    Returned => \A a \in Addr : ~IsFree(heap, a) => heap[a].refcount = HandleCount(a)

(* "[3 1 2] sort" has returned 0: the literal, whose only handle is the   *)
(* program list, has refcount 2.                                          *)
C8_Witness ==
    /\ Returned
    /\ line = pSort
    /\ \E a \in Addr :
          /\ IsIntList(heap, a, <<3, 1, 2>>)
          /\ HandleCount(a) = 1
          /\ heap[a].refcount = 2

(* ------------------------------- C9 ----------------------------------- *)
(* C9  Procedure table.  No two entries of the table have the same name.  *)
(* The table changes only at a def.  A def whose name is in the table     *)
(* leaves the number and the places of the entries as they are, makes     *)
(* that entry the list popped, with no native procedure, and drops one    *)
(* reference of the list bound before (freeing it at zero); a def of a    *)
(* new name adds one entry and changes no other.  A call runs the list    *)
(* that the entry of its name holds.  "[1] 'p def [2] 'p def p" leaves 2, *)
(* and after "[drop] '+ def", "1 2 +" leaves 1.                           *)
AtDef ==
    /\ AtCall
    /\ Proc # NULL
    /\ procs[Proc].cproc = "procDef"
    /\ checkStackType(heap, stack, <<{OBJ_TYPE_LIST}, {OBJ_TYPE_SYMBOL}>>) = 0

Named(ps, name) == {k \in 1..Len(ps) : ps[k].name = name}

DefStep ==
    LET d == Len(stack)
        name == heap[stack[d]].str
        code == stack[d - 1]
        bound == [name |-> name, proc |-> code, cproc |-> ""]
    IN /\ stack' = Below(stack, 2)
       /\ \A k \in 1..Len(procs) : procs[k].name # name => procs'[k] = procs[k]
       /\ IF Named(procs, name) # {}
          THEN /\ Len(procs') = Len(procs)
               /\ \A k \in Named(procs, name) :
                     /\ procs'[k] = bound
                     /\ LET old == procs[k].proc IN
                        (old # NULL /\ old # code) =>
                           IF heap[old].refcount = 1 THEN IsFree(heap', old)
                           ELSE heap'[old].refcount = heap[old].refcount - 1
          ELSE /\ Len(procs') = Len(procs) + 1
               /\ procs'[Len(procs')] = bound
       /\ ValueOf(heap', code) = ValueOf(heap, code)

CallRunsBound ==
    (AtCall /\ Named(procs, Cur.str) # {}) =>
        \A k \in Named(procs, Cur.str) :
            procs[k].cproc = "" =>
               /\ ctl'[Len(ctl')] = Activation("eval", procs[k].proc)
               /\ Len(ctl') = Len(ctl) + 1

UniqueNames ==
    \A i, k \in 1..Len(procs) : i # k => procs[i].name # procs[k].name

LastDefRuns ==
    /\ Evaluated(pRedef) => result = 0 /\ Len(stack) = 1 /\ IsInt(heap, stack[1], 2)
    /\ Evaluated(pRedefNative) => result = 0 /\ Len(stack) = 1 /\ IsInt(heap, stack[1], 1)

C9_ProcedureTable ==
    /\ [][(AtDef => DefStep) /\ (procs' # procs => AtDef) /\ CallRunsBound]_vars
    /\ [](UniqueNames /\ LastDefRuns)

(* After "[1] 'p def [2] 'p def p": one entry more than the library has,  *)
(* bound to [2], and the call has pushed 2.                               *)
C9_Witness ==
    /\ Evaluated(pRedef)
    /\ result = 0
    /\ Len(procs) = Len(loadLibrary.procs) + 1
    /\ \E k \in Named(procs, n_p) : IsIntList(heap, procs[k].proc, <<2>>)
    /\ Len(stack) = 1
    /\ IsInt(heap, stack[1], 2)

(* ------------------------------- C10 ---------------------------------- *)
(* C10  if and ifelse.  The call pops the two (if) or three (ifelse)      *)
(* lists and evaluates the condition.  When that has returned 0 with a    *)
(* Bool on top, the Bool is popped and the true branch is evaluated when  *)
(* it is true, the false branch of ifelse when it is false, and nothing   *)
(* for an if whose Bool is false, which returns 0.  When the top is not a *)
(* Bool or the stack is empty the operation returns 1 with no branch      *)
(* evaluated.  When the branch returns the operation returns: there is no *)
(* second evaluation of the condition or of a branch.                     *)
AtIf ==
    /\ AtCall
    /\ Proc # NULL
    /\ procs[Proc].cproc = "procIf"
    /\ procs[Proc].name \in {n_if, n_ifelse}
    /\ checkStackType(heap, stack,
                      IF procs[Proc].name = n_if
                      THEN <<{OBJ_TYPE_LIST}, {OBJ_TYPE_LIST}>>
                      ELSE <<{OBJ_TYPE_LIST}, {OBJ_TYPE_LIST}, {OBJ_TYPE_LIST}>>) = 0

IfCallStep ==
    LET d == Len(stack)
        n == IF procs[Proc].name = n_if THEN 2 ELSE 3
        act == ctl'[Len(ctl') - 1]
    IN /\ stack' = Below(stack, n)
       /\ Len(ctl') = Len(ctl) + 2
       /\ ctl'[Len(ctl')] = Activation("eval", stack[d - n + 1])
       /\ act.k = "procIf"
       /\ act.st = "cond"
       /\ act.w = 0
       /\ act.cond = stack[d - n + 1]
       /\ act.ifbranch = stack[d - n + 2]
       /\ act.elsebranch = IF n = 3 THEN stack[d] ELSE NULL
       /\ act.e = IF n = 3 THEN 1 ELSE 0

InIf(st) == status = "ok" /\ ctl # <<>> /\ Top.k = "procIf" /\ Top.w = 0 /\ Top.st \in st

Returns(r) == ctl' = Pop(ctl) /\ ret' = r
Runs(l, st) ==
    /\ Len(ctl') = Len(ctl) + 1
    /\ ctl'[Len(ctl')] = Activation("eval", l)
    /\ ctl'[Len(ctl)] = [Top EXCEPT !.st = st]
    /\ ret' = NoRet

IfCondStep ==
    LET d == Len(stack) IN
    IF d >= 1 /\ heap[stack[d]].type = OBJ_TYPE_BOOL
    THEN /\ stack' = Below(stack, 1)
         /\ IF heap[stack[d]].i # 0 THEN Runs(Top.ifbranch, "then")
            ELSE IF Top.e # 0 THEN Runs(Top.elsebranch, "else")
            ELSE Returns(0)
    ELSE stack' = stack /\ Returns(1)

IfStep ==
    /\ AtIf => IfCallStep
    /\ (InIf({"cond"}) /\ ret = 0) => IfCondStep
    /\ (InIf({"cond"}) /\ ret \notin {0, NoRet}) => (stack' = stack /\ Returns(1))
    /\ (InIf({"then", "else"}) /\ ret # NoRet) =>
          (stack' = stack /\ Returns(IF ret = 0 THEN 0 ELSE 1))

IfExamples ==
    /\ Evaluated(pIfTrue) =>
          result = 0 /\ Len(stack) = 2 /\ IsInt(heap, stack[1], 7) /\ IsInt(heap, stack[2], 1)
    /\ Evaluated(pIfFalse) => result = 0 /\ Len(stack) = 1 /\ IsInt(heap, stack[1], 7)
    /\ Evaluated(pIfelseTrue) => result = 0 /\ Len(stack) = 1 /\ IsInt(heap, stack[1], 1)
    /\ Evaluated(pIfNotBool) => result = 1 /\ Len(stack) = 1 /\ IsInt(heap, stack[1], 5)
    /\ Evaluated(pIfEmpty) => result = 1 /\ stack = <<>>

C10_IfIfelse == [][IfStep]_vars /\ []IfExamples

(* After "[#f] [1] [2] ifelse": only the false branch has run. *)
C10_Witness ==
    /\ Evaluated(pIfelseFalse)
    /\ result = 0
    /\ Len(stack) = 1
    /\ IsInt(heap, stack[1], 2)

(* ------------------------------- C11 ---------------------------------- *)
(* C11  while.  The call pops the two lists and evaluates the condition.  *)
(* Each time the condition has returned 0 with #t on top, the Bool is     *)
(* popped and the body is evaluated once, and when the body has returned  *)
(* 0 the condition is evaluated again; the operation returns 0 at the     *)
(* first condition that leaves #f, without evaluating the body, and       *)
(* returns 1 as soon as an evaluation fails or leaves no Bool: it ends in *)
(* no other way.  None of these steps creates or changes a frame.         *)
(* "0 (i) [$i 2 <] [$i 1 + (i)] while $i" runs the body twice,            *)
(* "[#f] [1] while" never, and "[#t] [] while" does not end.              *)
AtWhile ==
    /\ AtCall
    /\ Proc # NULL
    /\ procs[Proc].cproc = "procIf"
    /\ procs[Proc].name = n_while
    /\ checkStackType(heap, stack, <<{OBJ_TYPE_LIST}, {OBJ_TYPE_LIST}>>) = 0

WhileCallStep ==
    LET d == Len(stack)
        act == ctl'[Len(ctl') - 1]
    IN /\ stack' = Below(stack, 2)
       /\ Len(ctl') = Len(ctl) + 2
       /\ ctl'[Len(ctl')] = Activation("eval", stack[d - 1])
       /\ act.k = "procIf"
       /\ act.st = "cond"
       /\ act.w = 1
       /\ act.e = 0
       /\ act.cond = stack[d - 1]
       /\ act.ifbranch = stack[d]
       /\ act.elsebranch = NULL

InWhile(st) == status = "ok" /\ ctl # <<>> /\ Top.k = "procIf" /\ Top.w # 0 /\ Top.st \in st

(* The current frame is the same one and no frame is created, freed or    *)
(* written; only curproc of the current frame changes around a call.      *)
SameFrame ==
    /\ frame' = frame
    /\ \A f \in FrameId :
          /\ frames'[f].used = frames[f].used
          /\ frames'[f].locals = frames[f].locals
          /\ frames'[f].prev = frames[f].prev

WhileCondStep ==
    LET d == Len(stack) IN
    IF d >= 1 /\ heap[stack[d]].type = OBJ_TYPE_BOOL
    THEN /\ stack' = Below(stack, 1)
         /\ IF heap[stack[d]].i # 0 THEN Runs(Top.ifbranch, "then") ELSE Returns(0)
    ELSE stack' = stack /\ Returns(1)

WhileStep ==
    /\ AtWhile => (WhileCallStep /\ SameFrame)
    /\ (InWhile({"cond"}) /\ ret = 0) => (WhileCondStep /\ SameFrame)
    /\ (InWhile({"cond"}) /\ ret \notin {0, NoRet}) =>
          (stack' = stack /\ Returns(1) /\ SameFrame)
    /\ (InWhile({"then"}) /\ ret = 0) => (stack' = stack /\ Runs(Top.cond, "cond") /\ SameFrame)
    /\ (InWhile({"then"}) /\ ret \notin {0, NoRet}) =>
          (stack' = stack /\ Returns(1) /\ SameFrame)
    /\ ~InWhile({"else"})

WhileExamples ==
    /\ Evaluated(pWhile) =>
          result = 0 /\ Len(stack) = 1 /\ IsInt(heap, stack[1], 2) /\ IsInt(heap, TopLocal("i"), 2)
    /\ Evaluated(pWhileNever) => result = 0 /\ stack = <<>>
    /\ ~Evaluated(pWhileForever)

C11_While == [][WhileStep]_vars /\ []WhileExamples

(* After "0 (i) [$i 2 <] [$i 1 + (i)] while $i": i was counted up to 2.   *)
C11_Witness ==
    /\ Evaluated(pWhile)
    /\ result = 0
    /\ Len(stack) = 1
    /\ IsInt(heap, stack[1], 2)
    /\ IsInt(heap, TopLocal("i"), 2)

(* ------------------------------- C12 ---------------------------------- *)
(* C12  get@ is total.  At a call of get@ with a List, Tuple or String c  *)
(* of length n below the Int i on top, the step returns no error and      *)
(* replaces the two operands by one value: element i of c when            *)
(* 0 <= i < n, element n+i when -n <= i < 0 (for a String the one-byte    *)
(* String of that byte), and #f for every other i; the slots below and    *)
(* the value of every object seen through another handle, c included, are *)
(* unchanged.                                                             *)
AtGetAt ==
    /\ AtCall
    /\ Proc # NULL
    /\ procs[Proc].cproc = "procListGetAt"
    /\ checkStackType(heap, stack, <<{OBJ_TYPE_LIST, OBJ_TYPE_STRING, OBJ_TYPE_TUPLE},
                                     {OBJ_TYPE_INT}>>) = 0

GetAtHandles ==
    {stack[k] : k \in 1..(Len(stack) - 2)} \cup LocalHandles \cup BoundLists \cup HeldBy(ctl)

GetAtStep ==
    LET d == Len(stack)
        c == heap[stack[d - 1]]
        i == heap[stack[d]].i
        n == IF c.type = OBJ_TYPE_STRING THEN Len(c.str) ELSE Len(c.ele)
        k == IF 0 <= i /\ i < n THEN i ELSE IF -n <= i /\ i < 0 THEN n + i ELSE -1
        res == stack'[d - 1]
    IN /\ ret' = NoRet
       /\ status' = "ok"
       /\ Len(stack') = d - 1
       /\ \A m \in 1..(d - 2) : stack'[m] = stack[m]
       /\ IF k = -1 THEN IsBool(heap', res, 0)
          ELSE IF c.type = OBJ_TYPE_STRING
          THEN heap'[res].type = OBJ_TYPE_STRING /\ heap'[res].str = <<c.str[k + 1]>>
          ELSE res = c.ele[k + 1] /\ ValueOf(heap', res) = ValueOf(heap, c.ele[k + 1])
       /\ \A a \in GetAtHandles : ValueOf(heap', a) = ValueOf(heap, a)
       /\ SameFrame

GetAtExamples ==
    /\ Evaluated(pGetFirst) => result = 0 /\ Len(stack) = 1 /\ IsInt(heap, stack[1], 1)
    /\ Evaluated(pGetLast) => result = 0 /\ Len(stack) = 1 /\ IsInt(heap, stack[1], 3)
    /\ Evaluated(pGetBeyond) => result = 0 /\ Len(stack) = 1 /\ IsBool(heap, stack[1], 0)
    /\ Evaluated(pGetBefore) => result = 0 /\ Len(stack) = 1 /\ IsBool(heap, stack[1], 0)
    /\ Evaluated(pGetEmpty) => result = 0 /\ Len(stack) = 1 /\ IsBool(heap, stack[1], 0)

C12_GetAtTotal == [][AtGetAt => GetAtStep]_vars /\ []GetAtExamples

(* After "\"hi\" -1 get@": the last byte, as a String of its own. *)
C12_Witness ==
    /\ Evaluated(pGetString)
    /\ result = 0
    /\ Len(stack) = 1
    /\ heap[stack[1]].type = OBJ_TYPE_STRING
    /\ heap[stack[1]].str = <<"i">>

(* ------------------------------- C13 ---------------------------------- *)
(* C13  dup, drop and swap.  With S the stack of depth N at the call:     *)
(* dup (N >= 1) ends with S followed by the top of S once more, drop      *)
(* (N >= 1) with S less its top, swap (N >= 2) with the top two of S      *)
(* exchanged, the slots below being those of S.  With that many values on *)
(* the stack the call does not fail, and while it runs the objects of S   *)
(* keep their values and the caller's frame keeps its locals, none bound, *)
(* none changed.                                                          *)
BodyOf(name) ==
    IF lookupProc(procs, name) = NULL THEN NULL ELSE procs[lookupProc(procs, name)].proc

(* eval is running the list bound to name as the body of a call. *)
InProc(name) ==
    /\ status = "ok"
    /\ Len(ctl) >= 2
    /\ Top.k = "eval"
    /\ ~Top.dangling
    /\ BodyOf(name) # NULL
    /\ Top.l = BodyOf(name)
    /\ ctl[Len(ctl) - 1].k = "eval"
    /\ ctl[Len(ctl) - 1].st = "proc"

(* ... and has reached the end of the list. *)
ProcEnd(name) == InProc(name) /\ AtLoop /\ Top.j >= Len(heap[Top.l].ele)

CallerLocals == frames[Top.at.frame].locals = Top.at.frames[Top.at.frame].locals

Needs(name) == IF name = n_swap THEN 2 ELSE 1

StackOpsEnd ==
    LET S == Top.at.stack
        N == Len(S)
    IN /\ ProcEnd(n_dup) => (N >= 1 /\ stack = Append(S, S[N]) /\ CallerLocals)
       /\ ProcEnd(n_drop) => (N >= 1 /\ stack = Below(S, 1) /\ CallerLocals)
       /\ ProcEnd(n_swap) =>
             (N >= 2 /\ stack = Below(S, 2) \o <<S[N], S[N - 1]>> /\ CallerLocals)

StackOpsStep ==
    \A name \in {n_dup, n_drop, n_swap} :
       (InProc(name) /\ ret = NoRet /\ Len(Top.at.stack) >= Needs(name)) =>
          /\ status' = "ok"
          /\ ret' \in {NoRet, 0}
          /\ \A k \in 1..Len(Top.at.stack) :
                ValueOf(heap', Top.at.stack[k]) = ValueOf(heap, Top.at.stack[k])
          /\ LocalsKept(Top.at.frame)

StackOpsExamples ==
    /\ Evaluated(pDup) =>
          /\ result = 0
          /\ Len(stack) = 3
          /\ IsInt(heap, stack[1], 1) /\ IsInt(heap, stack[2], 2) /\ IsInt(heap, stack[3], 2)
          /\ IsInt(heap, TopLocal("x"), 5)
    /\ Evaluated(pDrop) =>
          result = 0 /\ Len(stack) = 1 /\ IsInt(heap, stack[1], 1) /\ TopLocal("_") = NULL

C13_StackOps == [][StackOpsStep]_vars /\ [](StackOpsEnd /\ StackOpsExamples)

(* After "5 (x) 1 2 3 swap": 1 3 2, and at the top level x is still 5 and  *)
(* y is unbound although swap captured x and y.                           *)
C13_Witness ==
    /\ Evaluated(pSwap)
    /\ result = 0
    /\ Len(stack) = 3
    /\ IsInt(heap, stack[1], 1) /\ IsInt(heap, stack[2], 3) /\ IsInt(heap, stack[3], 2)
    /\ IsInt(heap, TopLocal("x"), 5)
    /\ TopLocal("y") = NULL

(* ------------------------------- C14 ---------------------------------- *)
(* C14  map.  With the list L below the list f at the call, map ends with *)
(* L and f replaced by one list, neither L nor f, that has as many        *)
(* elements as L, the slots below being as they were.  Each evaluation of *)
(* f runs with the frame of map's caller current; while it runs the       *)
(* locals of map's own frame keep their handles and values, and at the    *)
(* end l and f are still L and f and e and j are the length of L.         *)
(* "[1 2 3] [dup *] map" leaves [1 4 9]; in "7 (l) [1] [(j) $l] map $j"   *)
(* the function captures j and reads l of the caller.                     *)
MapLoop == heap[BodyOf(n_map)].ele[9]

(* The upevals that the loop of a running map has made. *)
MapUpevals ==
    {u \in 4..Len(ctl) :
        /\ ctl[u].k = "procUpeval"
        /\ ctl[u - 1].k = "eval"
        /\ ~ctl[u - 1].dangling
        /\ ctl[u - 1].l = MapLoop
        /\ ctl[u - 3].k = "eval"
        /\ ctl[u - 3].l = BodyOf(n_map)}

MapFrames ==
    \A u \in MapUpevals :
       /\ ctl[u].oldsf # NULL
       /\ frames[ctl[u].oldsf].prev = ctl[u - 3].at.frame
       /\ (Len(ctl) = u + 1 /\ Top.k = "eval" /\ Top.st = "loop") =>
             /\ frame = ctl[u - 3].at.frame
             /\ Top.l = LocalOf(frames[ctl[u].oldsf].locals, "f")

MapStep == \A u \in MapUpevals : Len(ctl) > u => LocalsKept(ctl[u].oldsf)

MapEnd ==
    ProcEnd(n_map) =>
       LET S == Top.at.stack
           N == Len(S)
           own == frames[frame].locals
           r == stack[N - 1]
           n == Len(heap[S[N - 1]].ele)
       IN /\ N >= 2
          /\ Len(stack) = N - 1
          /\ Below(stack, 1) = Below(S, 2)
          /\ r \notin {S[N - 1], S[N]}
          /\ heap[r].type = OBJ_TYPE_LIST
          /\ Len(heap[r].ele) = n
          /\ LocalOf(own, "l") = S[N - 1]
          /\ LocalOf(own, "f") = S[N]
          /\ IsInt(heap, LocalOf(own, "e"), n)
          /\ IsInt(heap, LocalOf(own, "j"), n)

MapExamples ==
    /\ Evaluated(pMap) => result = 0 /\ Len(stack) = 1 /\ IsIntList(heap, stack[1], <<1, 4, 9>>)
    /\ Evaluated(pMapNames) =>
          /\ result = 0
          /\ Len(stack) = 1
          /\ IsIntList(heap, stack[1], <<1, 2>>)
          /\ IsInt(heap, TopLocal("f"), 2)
          /\ IsInt(heap, TopLocal("e"), 2)

C14_Map == [][MapStep]_vars /\ [](MapFrames /\ MapEnd /\ MapExamples)

(* After "7 (l) [1] [(j) $l] map $j": the function has read the caller's  *)
(* l and bound the caller's j; map's own l and j were not touched.        *)
C14_Witness ==
    /\ Evaluated(pMapLocals)
    /\ result = 0
    /\ Len(stack) = 2
    /\ IsIntList(heap, stack[1], <<7>>)
    /\ IsInt(heap, stack[2], 1)
    /\ IsInt(heap, TopLocal("l"), 7)
    /\ IsInt(heap, TopLocal("j"), 1)

(* ------------------------------ the printer --------------------------- *)
(* printf("%d"): the decimal digits, a minus sign before them below zero. *)
RECURSIVE decimal(_)
decimal(n) ==
    IF n < 10 THEN <<Digits[n + 1]>> ELSE Append(decimal(n \div 10), Digits[(n % 10) + 1])

printInt(i) ==
    IF i >= 0 THEN decimal(i)
    ELSE IF i = INT_MIN THEN <<"-">> \o decimal(INT_MAX \div 10) \o <<"8">>
    ELSE <<"-">> \o decimal(-i)

(* The bytes printobj writes for one byte of a string in repr form. *)
escaped(c) ==
    CASE c = "\n" -> <<"\\", "n">>
      [] c = "\r" -> <<"\\", "r">>
      [] c = "\t" -> <<"\\", "t">>
      [] c = "\"" -> <<"\\", "\"">>
      [] OTHER -> <<c>>

RECURSIVE printString(_)
printString(str) ==
    IF str = <<>> THEN <<>> ELSE escaped(Head(str)) \o printString(Tail(str))

(* printobj without PRINT_COLOR: what it writes for the object o; repr is *)
(* the PRINT_REPR flag.                                                   *)
RECURSIVE printobj(_, _, _)
RECURSIVE printElements(_, _, _, _)
printobj(h, o, repr) ==
    CASE h[o].type = OBJ_TYPE_INT -> printInt(h[o].i)
      [] h[o].type = OBJ_TYPE_SYMBOL -> h[o].str
      [] h[o].type = OBJ_TYPE_STRING ->
            IF ~repr THEN h[o].str ELSE <<"\"">> \o printString(h[o].str) \o <<"\"">>
      [] h[o].type = OBJ_TYPE_BOOL -> <<"#", IF h[o].i # 0 THEN "t" ELSE "f">>
      [] h[o].type \in {OBJ_TYPE_LIST, OBJ_TYPE_TUPLE} ->
            LET open == IF h[o].type = OBJ_TYPE_LIST THEN "[" ELSE "("
                close == IF h[o].type = OBJ_TYPE_LIST THEN "]" ELSE ")"
                inner == printElements(h, h[o].ele, 1, repr)
            IN IF repr THEN <<open>> \o inner \o <<close>> ELSE inner
printElements(h, ele, j, repr) ==
    IF j > Len(ele) THEN <<>>
    ELSE printobj(h, ele[j], repr)
         \o (IF j # Len(ele) THEN <<",", " ">> ELSE <<>>)
         \o printElements(h, ele, j + 1, repr)

(* ------------------- parsing and printing, on their own --------------- *)
(* parseObject and printobj are functions of the text and of the object.  *)
(* SpecRepr applies them to every text of a bounded set: the text is      *)
(* parsed and the object kept in stack[1]; printobj writes it in repr     *)
(* form into out; out is parsed and the object kept in stack[2].  result  *)
(* is 0 after a parse that returned an object and 1 after one that        *)
(* returned NULL.  The interpreter does not run.                          *)
MaxText == 2

TextBytes ==
    {"1", "0", "-", "a", "t", " ", ",", "[", "]", "(", ")", "'", "\"", "\\", "#", "/"}

ShortTexts == UNION {[1..k -> TextBytes] : k \in 0..MaxText}

Literals ==
    { <<"[", "1", " ", "2", "]">>,
      <<"[", "1", "]">>,
      <<"[", "]">>,
      <<"(", "a", " ", "b", ")">>,
      <<"(", "a", ")">>,
      <<"'", "(", "a", ")">>,
      <<"'", "a", "b">>,
      <<"a", "b">>,
      <<"$", "x">>,
      <<"-", "1", "2">>,
      <<"1", "-", "2">>,
      <<"2", "1", "4", "7", "4", "8", "3", "6", "4", "7">>,
      <<"-", "2", "1", "4", "7", "4", "8", "3", "6", "4", "8">>,
      <<"2", "1", "4", "7", "4", "8", "3", "6", "4", "8">>,
      <<"#", "t">>,
      <<"#", "f">>,
      <<"#", "x">>,
      <<"\"", "a", "b", "\"">>,
      <<"\"", "a", "\\", "\"", "b", "\"">>,
      <<"\"", "a", "\\", "\\", "b", "\"">>,
      <<"\"", "\\", "n", "\\", "r", "\\", "t", "\"">>,
      <<"\"", "a", "\n", "b", "\"">>,
      <<"\"", "a", "\\">>,
      <<"\"", "a">>,
      <<"[", "[", "1", "]", " ", "\"", "x", "\"", " ", "#", "t", "]">>,
      <<"[", "[", "]", "]">>,
      <<"[", "'", "a", "]">>,
      <<"[", "1", " ", "2">>,
      <<"(", "a", "b", ")">>,
      <<"(", "1", ")">>,
      <<" ", "/", "/", "c", "\n", " ", "7">>,
      <<"[", "1", ",", " ", "2", "]">>,
      <<"[", "1", ",", "2", "]">>,
      <<"(", "a", ",", " ", "b", ")">>,
      <<"[", "1", " ", ",", "]">> }

ReprTexts == ShortTexts \cup Literals

InitRepr ==
    /\ LET lib == loadLibrary IN
       /\ heap = lib.h
       /\ procs = lib.procs
    /\ stack = <<>>
    /\ frames = [f \in FrameId |-> IF f = TopFrame THEN newStackFrame(NULL) ELSE FreeFrame]
    /\ frame = TopFrame
    /\ ctl = <<>>
    /\ ret = NoRet
    /\ lines = <<>>
    /\ result = NoRet
    /\ status = "ok"
    /\ text \in ReprTexts
    /\ out = <<>>

(* parseObject(NULL, s, NULL, NULL), and the object kept on the stack. *)
Parses(s) ==
    LET r == parseObject(s, 0) IN
    CASE r.kind = "ub" ->
            /\ status' = "ub"
            /\ UNCHANGED <<heap, stack, result>>
      [] r.kind = "err" ->
            /\ result' = 1
            /\ UNCHANGED <<heap, stack, status>>
      [] r.kind = "ok" ->
            LET n == allocParsed(heap, r.t) IN
            /\ n.a # NULL
            /\ heap' = n.h
            /\ stack' = Append(stack, n.a)
            /\ result' = 0
            /\ UNCHANGED status

Parse ==
    /\ status = "ok"
    /\ result = NoRet
    /\ Parses(text)
    /\ UNCHANGED <<io, procs, frames, frame, ctl, ret, lines>>

(* printobj(stack[0], PRINT_REPR) *)
Show ==
    /\ status = "ok"
    /\ result = 0
    /\ Len(stack) = 1
    /\ out = <<>>
    /\ out' = printobj(heap, stack[1], TRUE)
    /\ UNCHANGED <<text, heap, stack, procs, frames, frame, ctl, ret, lines, result, status>>

ParseBack ==
    /\ status = "ok"
    /\ result = 0
    /\ Len(stack) = 1
    /\ out # <<>>
    /\ Parses(out)
    /\ UNCHANGED <<io, procs, frames, frame, ctl, ret, lines>>

NextRepr ==
    \/ Parse
    \/ Show
    \/ ParseBack

SpecRepr == InitRepr /\ [][NextRepr]_vars

(* ------------------------------- C15 ---------------------------------- *)
(* The text that printobj wrote for the object parsed from text has been  *)
(* handed to parseObject.                                                 *)
ParsedBack == out # <<>> /\ (Len(stack) = 2 \/ result = 1 \/ status = "ub")

(* C15  Repr round-trip.  For every value parseObject produces, parsing   *)
(* the text printobj writes for it in repr form returns an object, and    *)
(* that object has the type, the payload, the quoted flag and, element by *)
(* element, the elements of the first.  Violated: the elements of a list  *)
(* or tuple are written with ", " between them and the parser does not    *)
(* skip a comma, so [1 2] is written [1, 2] and parseObject returns NULL; *)
(* a backslash in a string is written as it is and read back as an        *)
(* escape; a quoted symbol or tuple is written without its quote.         *)
C15_ReprRoundTrip ==
    ParsedBack =>
        /\ status = "ok"
        /\ result = 0
        /\ Len(stack) = 2
        /\ ValueOf(heap, stack[2]) = ValueOf(heap, stack[1])

(* [1 2] was parsed, written as [1, 2], and that text was refused. *)
C15_Witness ==
    /\ text = <<"[", "1", " ", "2", "]">>
    /\ out = <<"[", "1", ",", " ", "2", "]">>
    /\ result = 1
    /\ Len(stack) = 1
    /\ IsIntList(heap, stack[1], <<1, 2>>)

(* ------------------------------- C16 ---------------------------------- *)
(* The activation at depth m is left as it was, the dangling mark aside. *)
Kept(m) == [ctl'[m] EXCEPT !.dangling = FALSE] = [ctl[m] EXCEPT !.dangling = FALSE]

(* A step calls, returns or moves the innermost activation; the ones      *)
(* that enclose it wait.  The call of a native procedure and the call of  *)
(* eval it starts with are one step.                                      *)
InnermostOnly ==
    ctl # <<>> =>
        /\ Len(ctl') \in (Len(ctl) - 1)..(Len(ctl) + 2)
        /\ \A m \in 1..(Len(ctl) - 1) : m <= Len(ctl') => Kept(m)

(* An eval keeps its list; its index starts at 0 and moves by one, when   *)
(* it is the innermost activation and the element has completed; it       *)
(* returns 0 from the end of the list only.                               *)
LeftToRight ==
    /\ \A m \in 1..Len(ctl) :
          (m <= Len(ctl') /\ ctl[m].k = "eval") =>
              /\ ctl'[m].k = "eval"
              /\ ctl'[m].l = ctl[m].l
              /\ \/ ctl'[m].j = ctl[m].j
                 \/ /\ ctl'[m].j = ctl[m].j + 1
                    /\ m = Len(ctl)
                    /\ Len(ctl') = Len(ctl)
                    /\ ret \in {NoRet, 0}
                    /\ ret' = NoRet
                    /\ ctl'[m].st = "loop"
    /\ \A m \in (Len(ctl) + 1)..Len(ctl') :
          ctl'[m].k = "eval" => ctl'[m].j = 0 /\ ctl'[m].st = "loop"
    /\ (ctl # <<>> /\ Len(ctl') < Len(ctl) /\ Top.k = "eval" /\ ret' = 0) =>
          /\ Top.st = "loop"
          /\ Top.j = Len(heap[Top.l].ele)

(* A failure starts as the return of 1 from the innermost activation. *)
FailReturns ==
    (ret \in {NoRet, 0} /\ ret' \notin {NoRet, 0}) =>
        /\ ret' = 1
        /\ ctl' = Pop(ctl)

(* While 1 is being returned every step is the return of the next         *)
(* enclosing activation, up to repl: nothing is pushed or popped.         *)
ShortCircuit ==
    (status = "ok" /\ ret \notin {NoRet, 0}) =>
        /\ stack' = stack
        /\ ctl' = Pop(ctl)
        /\ IF Top.k = "repl" THEN result' = 1 /\ ret' = NoRet ELSE ret' = 1

NoInt(n) == \A k \in 1..Len(stack) : ~IsInt(heap, stack[k], n)

OrderExamples ==
    /\ Evaluated(pUnbound) =>
          /\ result = 1
          /\ Len(stack) = 1
          /\ IsInt(heap, stack[1], 1)
    /\ Evaluated(pForeachFails) => result = 1 /\ NoInt(3)
    /\ Evaluated(pIfCondFails) => result = 1 /\ NoInt(1)
    /\ Evaluated(pSub) => result = 0

(* C16  Evaluation order and short-circuit.  Every eval runs the elements *)
(* of its list from index 0 upwards, one at a time, and moves to the next *)
(* only when it is the innermost activation, so after everything the      *)
(* element called has returned; once an element has failed, each          *)
(* enclosing activation returns 1 in turn without running anything, and   *)
(* the elements after the failing one, at every level, are not run.       *)
C16_EvalOrder ==
    /\ [][InnermostOnly /\ LeftToRight /\ FailReturns /\ ShortCircuit]_vars
    /\ []OrderExamples

(* 1 2 [foo] foreach 3 has failed inside the upeval of [foo], three calls *)
(* deep, and neither the second element of the list nor 3 was reached.    *)
C16_Witness ==
    /\ Evaluated(pForeachFails)
    /\ result = 1
    /\ NoInt(3)
    /\ NoInt(2)

(* ------------------------------- C17 ---------------------------------- *)
InUse(fs) == {f \in FrameId : fs[f].used}

(* The step is the return of the eval on top, with 0 or with 1. *)
EvalReturns ==
    /\ status = "ok"
    /\ ctl # <<>>
    /\ Top.k = "eval"
    /\ ctl' = Pop(ctl)

(* What the returning eval leaves, against what it found when it started. *)
Balanced ==
    /\ frame' = Top.entry.frame
    /\ frames'[frame'].curproc = Top.entry.curproc
    /\ InUse(frames') = Top.entry.used

(* A frame is released while it is allocated and current, and the current *)
(* frame and the frames it is chained to are allocated.                   *)
ReleasedOnce ==
    \A f \in FrameId : (frames[f].used /\ ~frames'[f].used) => f = frame /\ frame' # f

RECURSIVE Chain(_, _)
Chain(fs, f) == IF f = NULL THEN {} ELSE {f} \cup Chain(fs, fs[f].prev)

FramesLive == Chain(frames, frame) \subseteq InUse(frames)

(* repl is at the prompt after a line. *)
AtPrompt == ctl = <<>> /\ nlines >= 1

TopLevelFrame ==
    AtPrompt =>
        /\ frame = TopFrame
        /\ frames[TopFrame].curproc = NULL
        /\ InUse(frames) = {TopFrame}

(* C17  Frame balance.  Whenever eval returns, with 0 or with 1, the      *)
(* current frame is the one that was current when that eval started, the  *)
(* current procedure of that frame is the one it had then, and the frames *)
(* allocated are the ones allocated then, each frame made in between      *)
(* having been released once; after every line, failed or not, the        *)
(* current frame is the top-level frame, with no current procedure, and   *)
(* no other frame is allocated.                                           *)
C17_FrameBalance ==
    /\ [][(EvalReturns => Balanced) /\ ReleasedOnce]_vars
    /\ [](FramesLive /\ TopLevelFrame)

(* [3 (x) [$x] upeval] 'p def p has failed: $x is unbound in the frame    *)
(* upeval switched to, below the frame of p.                              *)
C17_Witness ==
    /\ Evaluated(pUpevalFails)
    /\ result = 1
    /\ frame = TopFrame
    /\ frames[TopFrame].curproc = NULL
    /\ InUse(frames) = {TopFrame}

(* ------------------------------- C18 ---------------------------------- *)
(* C18  No release of running code.  The list every eval on the call      *)
(* stack iterates over is allocated with a refcount of at least 1 until   *)
(* that eval returns.  Violated: eval does not retain the body of a       *)
(* list-bound procedure, so when the body runs def on its own name and    *)
(* the procedure table holds the only reference, addProc releases the     *)
(* body to zero and frees it while eval is inside its loop.               *)
C18_RunningCodeHeld ==
    \A m \in 1..Len(ctl) :
        ctl[m].k = "eval" =>
            /\ ~ctl[m].dangling
            /\ ~IsFree(heap, ctl[m].l)
            /\ heap[ctl[m].l].refcount >= 1

(* Second line p, after [[1] 'p def 2] 'p def: def has run inside p and   *)
(* the body, which only the procedure table referred to, is freed while   *)
(* its element 2 is still to be run.                                      *)
C18_Witness ==
    /\ lines = <<pDefBody, pCall>>
    /\ ctl # <<>>
    /\ Top.k = "eval"
    /\ Top.dangling
    /\ IsFree(heap, Top.l)
    /\ Top.j = 3

(* ------------------------------- C19 ---------------------------------- *)
(* eval is about to call a comparison, and the two operands on top       *)
(* cannot be compared.                                                    *)
Mismatched ==
    /\ AtCall
    /\ Proc # NULL
    /\ procs[Proc].cproc = "procCompare"
    /\ Len(stack) >= 2
    /\ compare(heap[stack[Len(stack) - 1]], heap[stack[Len(stack)]]) = COMPARE_TYPE_MISMATCH

(* C19  Comparison type mismatch restores the operands.  A comparison     *)
(* called on two operands whose types cannot be compared returns 1 and    *)
(* leaves the operand stack as it was before the call: the same handles   *)
(* in the same order, and every object with the refcount it had.          *)
(* Violated: procCompare pushes b back before a, so the two operands come *)
(* back in the opposite order.                                            *)
C19_MismatchRestores ==
    [][Mismatched =>
          /\ ret' = 1
          /\ stack' = stack
          /\ heap' = heap]_vars

(* 7 1 "a" < has failed and has left 7 "a" 1. *)
C19_Witness ==
    /\ Evaluated(pMismatch)
    /\ result = 1
    /\ Len(stack) = 3
    /\ IsInt(heap, stack[1], 7)
    /\ heap[stack[2]].type = OBJ_TYPE_STRING
    /\ IsInt(heap, stack[3], 1)

(* ------------------------------- C20 ---------------------------------- *)
(* C20  ifelse with a Bool literal as condition.  #t [1] [2] ifelse on an *)
(* empty stack returns 0 and leaves the Int 1 alone on the stack, and     *)
(* #f [1] [2] ifelse returns 0 and leaves the Int 2.  Violated: procIf    *)
(* requires three lists, the Bool fails checkStackType and ifelse returns *)
(* 1 with the three operands still on the stack.                          *)
C20_IfelseLiteral ==
    /\ Evaluated(pIfelseLiteralTrue) =>
          /\ result = 0
          /\ Len(stack) = 1
          /\ IsInt(heap, stack[1], 1)
    /\ Evaluated(pIfelseLiteralFalse) =>
          /\ result = 0
          /\ Len(stack) = 1
          /\ IsInt(heap, stack[1], 2)

(* #t [1] [2] ifelse has failed; the Bool and the two lists are left. *)
C20_Witness ==
    /\ Evaluated(pIfelseLiteralTrue)
    /\ result = 1
    /\ Len(stack) = 3
    /\ IsBool(heap, stack[1], 1)
    /\ IsIntList(heap, stack[2], <<1>>)
    /\ IsIntList(heap, stack[3], <<2>>)

(* ------------------------------- C21 ---------------------------------- *)
(* The string that opens before position p of s is closed: a quotation    *)
(* mark that no backslash precedes comes before the end of the text.      *)
RECURSIVE Closed(_, _)
Closed(s, p) ==
    IF p >= Len(s) THEN FALSE
    ELSE IF CharAt(s, p) = "\"" THEN TRUE
    ELSE IF CharAt(s, p) = "\\" THEN Closed(s, p + 2)
    ELSE Closed(s, p + 1)

(* The text is a string literal that is never closed. *)
Unterminated == text # <<>> /\ text[1] = "\"" /\ ~Closed(text, 1)

(* parseObject has been called on text, and on nothing else yet. *)
TextParsed == out = <<>> /\ (result # NoRet \/ status = "ub")

(* C21  Unterminated string.  For every text that opens a string and has  *)
(* no closing quotation mark outside an escape before its end, the text   *)
(* that ends with a backslash inside the string included, parseObject     *)
(* returns NULL and reads no byte after the terminating NUL.  Violated:   *)
(* after a backslash the loop takes the next byte and steps over it, also *)
(* when it is the NUL, and goes on reading after the end of the text.     *)
C21_UnterminatedString ==
    (Unterminated /\ TextParsed) =>
        /\ status = "ok"
        /\ result = 1
        /\ stack = <<>>

(* "a\ has been parsed: the loop went past the NUL. *)
C21_Witness ==
    /\ text = <<"\"", "a", "\\">>
    /\ Unterminated
    /\ TextParsed
    /\ status = "ub"

(* ------------------------------- C22 ---------------------------------- *)
(* eval is about to call -> or <- on a list that is shared, so the list   *)
(* is copied.                                                             *)
AppendCopies ==
    /\ AtCall
    /\ Proc # NULL
    /\ procs[Proc].cproc = "procListAppend"
    /\ checkStackType(heap, stack, <<OBJ_TYPE_ANY, {OBJ_TYPE_LIST}>>) = 0
    /\ heap[stack[Len(stack)]].refcount > 1
    /\ status' = "ok"
    /\ ret' = NoRet

(* The node c of heap' is a copy of the node o of heap: cells that were   *)
(* free, refcount 1, the same type, payload and quoted flag, and the same *)
(* for the elements.                                                      *)
RECURSIVE IsCopy(_, _)
IsCopy(c, o) ==
    /\ IsFree(heap, c)
    /\ heap'[c].refcount = 1
    /\ heap'[c].type = heap[o].type
    /\ heap'[c].i = heap[o].i
    /\ heap'[c].str = heap[o].str
    /\ heap'[c].quoted = heap[o].quoted
    /\ Len(heap'[c].ele) = Len(heap[o].ele)
    /\ \A k \in 1..Len(heap[o].ele) : IsCopy(heap'[c].ele[k], heap[o].ele[k])

(* The list on top after the step is a new list: the element added, and   *)
(* before or after it a copy of every element of the operand.             *)
AppendedCopy ==
    LET o == stack[Len(stack)]
        c == stack'[Len(stack')]
        n == Len(heap[o].ele)
        first == IF CharAt(procs[Proc].name, 0) = "-" THEN 0 ELSE 1
    IN /\ IsFree(heap, c)
       /\ heap'[c].refcount = 1
       /\ heap'[c].type = OBJ_TYPE_LIST
       /\ Len(heap'[c].ele) = n + 1
       /\ \A k \in 1..n : IsCopy(heap'[c].ele[k + first], heap[o].ele[k])

CopyExamples ==
    /\ Evaluated(pAppendQuoted) =>
          /\ result = 0
          /\ Len(stack) = 2
          /\ heap[stack[1]].type = OBJ_TYPE_TUPLE
          /\ IsInt(heap, stack[2], 2)
    /\ Evaluated(pSortQuoted) =>
          /\ result = 0
          /\ Len(stack) = 2
          /\ IsInt(heap, stack[1], 1)
          /\ heap[stack[2]].type = OBJ_TYPE_TUPLE
          /\ TopLocal("y") = NULL

(* C22  Deep copy preserves quoted flags.  The copy that sort, -> and <-  *)
(* make of a shared list is a tree of new nodes with refcount 1, each     *)
(* with the type, the content and the quoted flag of the node it copies,  *)
(* Tuples included; so the copy of a list that holds a quoted tuple       *)
(* still pushes the tuple when it is evaluated.  Violated: deepCopy never *)
(* writes l.quoted of the Tuple it allocates, so the flag of the copy is  *)
(* whatever the memory held, and the copied tuple may capture.            *)
C22_DeepCopyQuoted ==
    /\ [][AppendCopies => AppendedCopy]_vars
    /\ []CopyExamples

(* 2 ['(y)] -> eval: the copy of '(y) came out unquoted, eval took it as  *)
(* a capture on the empty stack and failed.                               *)
C22_Witness ==
    /\ Evaluated(pAppendQuoted)
    /\ result = 1
    /\ stack = <<>>

(* ----------------------- addProcString on a text ---------------------- *)
(* addProcString(ctx, name, prog): the text is parsed and what parseObject *)
(* returned is handed to addProc; the test before it is on prog, which is *)
(* never NULL, so 1 is never returned.  When parseObject returned NULL    *)
(* the assert of addProc finds neither a function nor a list and aborts.  *)
addProcStringText(ps, h, name, prog) ==
    LET r == parseObject(prog, 0) IN
    CASE r.kind = "ub" -> [kind |-> "ub"]
      [] r.kind = "err" -> [kind |-> "trap"]
      [] r.kind = "ok" ->
            LET n == allocParsed(h, r.t)
                b == addProc(ps, n.h, name, "", n.a)
            IN [kind |-> "ok", retval |-> 0, procs |-> b.procs, h |-> b.h]

(* SpecBind applies addProcString to every text of the bounded set, under *)
(* a name that is free and under one that a list is bound to; result is   *)
(* what it returned.                                                      *)
BindNames == {n_p, n_dup}

AddProcString(name) ==
    /\ status = "ok"
    /\ result = NoRet
    /\ LET r == addProcStringText(procs, heap, name, text) IN
       IF r.kind = "ok"
       THEN /\ procs' = r.procs
            /\ heap' = r.h
            /\ result' = r.retval
            /\ UNCHANGED status
       ELSE /\ status' = r.kind
            /\ UNCHANGED <<procs, heap, result>>
    /\ UNCHANGED <<io, stack, frames, frame, ctl, ret, lines>>

NextBind == \E name \in BindNames : AddProcString(name)

SpecBind == InitRepr /\ [][NextBind]_vars

(* ------------------------------- C23 ---------------------------------- *)
(* addProcString has been called on text. *)
BindDone == result # NoRet \/ status # "ok"

ParsesToList ==
    LET r == parseObject(text, 0) IN r.kind = "ok" /\ r.t.type = OBJ_TYPE_LIST

(* Every entry of the table is native, or bound to a List. *)
ListBound ==
    \A k \in 1..Len(procs) :
        procs[k].cproc = "" =>
            /\ procs[k].proc # NULL
            /\ heap[procs[k].proc].type = OBJ_TYPE_LIST

(* C23  Binding a procedure from text.  addProcString binds the name only *)
(* when the text parses to a List; when the text does not parse, or       *)
(* parses to a value of another type, it returns 1 and leaves the         *)
(* procedure table as it was; every entry of the table that is not native *)
(* holds a List.  Violated: the test is on the text pointer and not on    *)
(* what parseObject returned, so 1 is bound as a procedure with return    *)
(* value 0, and a text that does not parse reaches addProc with NULL.     *)
C23_AddProcString ==
    BindDone =>
        /\ status = "ok"
        /\ ListBound
        /\ IF ParsesToList
           THEN result = 0 /\ \E k \in 1..Len(procs) : procs[k].name \in BindNames
           ELSE result = 1 /\ procs = loadLibrary.procs

(* addProcString on the text 1 has returned 0 and the name is bound to an *)
(* Int.                                                                   *)
C23_Witness ==
    /\ text = <<"1">>
    /\ result = 0
    /\ \E k \in 1..Len(procs) :
          /\ procs[k].cproc = ""
          /\ IsInt(heap, procs[k].proc, 1)

(* ------------------------------- C24 ---------------------------------- *)
(* The text with every comma replaced by a space. *)
Blanked(s) == [k \in 1..Len(s) |-> IF s[k] = "," THEN " " ELSE s[k]]

(* A list or tuple literal with a comma after one of its elements. *)
CommaLiteral ==
    /\ text # <<>>
    /\ text[1] \in {"[", "("}
    /\ \E k \in 2..Len(text) : text[k] = "," /\ text[k - 1] \notin {"[", "(", ","}
    /\ parseObject(Blanked(text), 0).kind = "ok"

(* What the parser has made of text is what it makes of s. *)
ParsedLike(s) ==
    LET r == parseObject(s, 0)
        n == allocParsed(loadLibrary.h, r.t)
    IN /\ r.kind = "ok"
       /\ status = "ok"
       /\ result = 0
       /\ Len(stack) = 1
       /\ ValueOf(heap, stack[1]) = ValueOf(n.h, n.a)

(* C24  Optional commas.  A comma after an element of a list or tuple     *)
(* literal is skipped like a space: the literal parses to the value that  *)
(* the same text without the commas parses to, [1, 2] to the list of      *)
(* [1 2].  Violated: parserConsumeSpace skips only isspace bytes and //   *)
(* comments, the comma starts no object, and parseObject returns NULL.    *)
C24_OptionalCommas == (CommaLiteral /\ TextParsed) => ParsedLike(Blanked(text))

(* [1, 2] has been handed to parseObject, which returned NULL. *)
C24_Witness ==
    /\ text = <<"[", "1", ",", " ", "2", "]">>
    /\ CommaLiteral
    /\ TextParsed
    /\ result = 1
    /\ stack = <<>>

(* ------------------------------- C25 ---------------------------------- *)
(* The guard at the head of the native procedure cname, called under the  *)
(* name fname: what its checkStackLen or checkStackType returns on the    *)
(* stack as it is.                                                        *)
EntryGuard(cname, fname) ==
    CASE cname = "procBasicMath" ->
            checkStackType(heap, stack, <<{OBJ_TYPE_INT}, {OBJ_TYPE_INT}>>)
      [] cname = "procCompare" -> checkStackLen(stack, 2)
      [] cname = "procSortList" -> checkStackType(heap, stack, <<{OBJ_TYPE_LIST}>>)
      [] cname = "procDef" ->
            checkStackType(heap, stack, <<{OBJ_TYPE_LIST}, {OBJ_TYPE_SYMBOL}>>)
      [] cname = "procIf" ->
            IF CharAt(fname, 2) = "e"
            THEN checkStackType(heap, stack,
                                <<{OBJ_TYPE_LIST}, {OBJ_TYPE_LIST}, {OBJ_TYPE_LIST}>>)
            ELSE checkStackType(heap, stack, <<{OBJ_TYPE_LIST}, {OBJ_TYPE_LIST}>>)
      [] cname \in {"procEval", "procUpeval"} ->
            checkStackType(heap, stack, <<{OBJ_TYPE_LIST}>>)
      [] cname \in {"procPrint", "procPrintnl"} -> checkStackLen(stack, 1)
      [] cname = "procLen" ->
            checkStackType(heap, stack,
                <<{OBJ_TYPE_LIST, OBJ_TYPE_TUPLE, OBJ_TYPE_STRING, OBJ_TYPE_SYMBOL}>>)
      [] cname = "procListAppend" ->
            checkStackType(heap, stack, <<OBJ_TYPE_ANY, {OBJ_TYPE_LIST}>>)
      [] cname = "procListGetAt" ->
            checkStackType(heap, stack,
                <<{OBJ_TYPE_LIST, OBJ_TYPE_STRING, OBJ_TYPE_TUPLE}, {OBJ_TYPE_INT}>>)
      [] OTHER -> 0

(* eval is about to call a native procedure whose guard rejects the stack. *)
GuardFails ==
    /\ AtCall
    /\ Proc # NULL
    /\ procs[Proc].cproc # ""
    /\ EntryGuard(procs[Proc].cproc, procs[Proc].name) # 0

(* C25  Guard failure changes nothing.  When the checkStackLen or         *)
(* checkStackType at the head of a native procedure rejects the stack     *)
(* (too few values, or a value of a type not allowed at its position),    *)
(* the call returns 1 and the stack (depth, handles, values), the locals  *)
(* of every frame, the current frame and the procedure table are as       *)
(* before the call.                                                       *)
C25_GuardFailure ==
    [][GuardFails =>
          /\ ret' = 1
          /\ stack' = stack
          /\ heap' = heap
          /\ procs' = procs
          /\ frame' = frame
          /\ \A f \in FrameId : frames'[f].locals = frames[f].locals]_vars

(* "5 (x) 1 'p def": def has refused the Int, x is still 5, the Int and   *)
(* the symbol are still on the stack and p is not bound.                  *)
C25_Witness ==
    /\ nlines >= 1
    /\ line = pDefTypeLocals
    /\ ret = 1
    /\ Len(stack) = 2
    /\ IsInt(heap, stack[1], 1)
    /\ heap[stack[2]].type = OBJ_TYPE_SYMBOL
    /\ IsInt(heap, TopLocal("x"), 5)
    /\ lookupProc(procs, n_p) = NULL

(* ------------------------------- C26 ---------------------------------- *)
(* eval stands at an unquoted tuple that names more locals than the stack *)
(* holds values.                                                          *)
ShortCapture ==
    /\ AtElement
    /\ Cur.type = OBJ_TYPE_TUPLE
    /\ Cur.quoted = 0
    /\ Len(stack) < Len(Cur.ele)

(* C26  Tuple capture on a short stack is atomic.  When eval reaches an   *)
(* unquoted tuple of n symbols and the stack holds fewer than n values,   *)
(* eval returns 1 and nothing was captured: the locals of every frame,    *)
(* the objects they hold and the stack (depth, handles, values) are as    *)
(* before.                                                                *)
C26_ShortCapture ==
    [][ShortCapture =>
          /\ ret' = 1
          /\ ctl' = Pop(ctl)
          /\ stack' = stack
          /\ heap' = heap
          /\ frames' = frames
          /\ frame' = frame]_vars

(* "5 (x) 1 (x y)": the second capture has failed, x is still 5 and the 1 *)
(* is still on the stack.                                                 *)
C26_Witness ==
    /\ nlines >= 1
    /\ line = pCaptureShortLocals
    /\ ret = 1
    /\ Len(stack) = 1
    /\ IsInt(heap, stack[1], 1)
    /\ IsInt(heap, TopLocal("x"), 5)
    /\ TopLocal("y") = NULL

(* ------------------------------- C27 ---------------------------------- *)
(* The objects reached from the objects of S through l.ele, S included. *)
RECURSIVE Reached(_, _)
Reached(h, S) ==
    LET T == S \cup UNION {{h[a].ele[k] : k \in 1..Len(h[a].ele)} : a \in S}
    IN IF T = S THEN S ELSE Reached(h, T)

Descendants(h, a) == Reached(h, {h[a].ele[k] : k \in 1..Len(h[a].ele)})

Acyclic(h) == \A a \in Addr : a \notin Descendants(h, a)

(* The list -> or <- has left on the stack after "[1] dup ->" or          *)
(* "[1] dup <-": the Int and the list [1], which is another object.       *)
SelfAppended(p, k) ==
    (Evaluated(p) /\ result = 0) =>
        /\ Len(stack) = 1
        /\ heap[stack[1]].type = OBJ_TYPE_LIST
        /\ Len(heap[stack[1]].ele) = 2
        /\ IsInt(heap, heap[stack[1]].ele[3 - k], 1)
        /\ IsIntList(heap, heap[stack[1]].ele[k], <<1>>)
        /\ heap[stack[1]].ele[k] # stack[1]

(* C27  Acyclic value graph.  In every reachable state no List or Tuple   *)
(* is reached from its own elements; -> and <- called with the same list  *)
(* as element and as list operand (after dup) leave a list that holds the *)
(* operand as another object, never itself.                               *)
C27_Acyclic ==
    /\ Acyclic(heap)
    /\ SelfAppended(pAppendSelf, 2)
    /\ SelfAppended(pPrependSelf, 1)

(* After "[1] dup ->": the list [1 [1]] is on the stack. *)
C27_Witness ==
    /\ Evaluated(pAppendSelf)
    /\ result = 0
    /\ Len(stack) = 1
    /\ Len(heap[stack[1]].ele) = 2
    /\ IsIntList(heap, heap[stack[1]].ele[2], <<1>>)
    /\ stack[1] \notin Descendants(heap, stack[1])

(* ------------------------------- C28 ---------------------------------- *)
(* eval stands at a quoted symbol or a quoted tuple. *)
AtQuoted ==
    /\ AtElement
    /\ Cur.type \in {OBJ_TYPE_SYMBOL, OBJ_TYPE_TUPLE}
    /\ Cur.quoted # 0

(* The cell c of heap' is new and holds the symbol o of heap as it is. *)
SameSymbol(c, o) ==
    /\ IsFree(heap, c)
    /\ heap'[c].type = OBJ_TYPE_SYMBOL
    /\ heap'[c].str = heap[o].str
    /\ heap'[c].quoted = heap[o].quoted

(* The step has pushed one new object of the type of the element, with    *)
(* its name or with new symbols of the names of its elements, not quoted; *)
(* the slots below, the element and every other object of the program,    *)
(* the locals, the frames and the procedure table are as before, and eval *)
(* goes on with the next element without a call.                          *)
PushedAsData ==
    LET o == CurAddr
        c == stack'[Len(stack')]
    IN /\ Len(stack') = Len(stack) + 1
       /\ SubSeq(stack', 1, Len(stack)) = stack
       /\ IsFree(heap, c)
       /\ heap'[c].type = heap[o].type
       /\ heap'[c].refcount = 1
       /\ heap'[c].quoted = 0
       /\ heap'[c].str = heap[o].str
       /\ Len(heap'[c].ele) = Len(heap[o].ele)
       /\ \A k \in 1..Len(heap[o].ele) : SameSymbol(heap'[c].ele[k], heap[o].ele[k])
       /\ \A a \in Addr : ~IsFree(heap, a) => heap'[a] = heap[a]
       /\ heap'[o].quoted # 0
       /\ frames' = frames
       /\ frame' = frame
       /\ procs' = procs
       /\ ctl' = [ctl EXCEPT ![Len(ctl)].j = @ + 1]
       /\ ret' = NoRet

(* C28  Quoted forms are pushed as data.  Evaluating a quoted symbol or a *)
(* quoted tuple pushes a new object with the same name or elements and    *)
(* the quoted flag clear; no procedure is looked up or called, no local   *)
(* is captured, and the element of the program stays quoted, so that the  *)
(* next evaluation of the same list pushes data again.                    *)
C28_QuotedPushed == [][AtQuoted => PushedAsData]_vars

(* The second iteration of the while of pWhileQuoted (i is 1) has pushed  *)
(* the tuple (i) again, unquoted, from the element that is still quoted.  *)
C28_Witness ==
    /\ nlines >= 1
    /\ line = pWhileQuoted
    /\ AtLoop
    /\ Top.j = 3
    /\ IsInt(heap, TopLocal("i"), 1)
    /\ Len(stack) = 1
    /\ heap[stack[1]].type = OBJ_TYPE_TUPLE
    /\ heap[stack[1]].quoted = 0
    /\ TupleNames(heap, stack[1]) = <<"i">>
    /\ heap[heap[Top.l].ele[3]].type = OBJ_TYPE_TUPLE
    /\ heap[heap[Top.l].ele[3]].quoted # 0

(* ------------------------------- C29 ---------------------------------- *)
(* Every Tuple of the heap h holds Symbols of one byte only. *)
TuplesWellFormed(h) ==
    \A a \in Addr :
        h[a].type = OBJ_TYPE_TUPLE =>
            \A k \in 1..Len(h[a].ele) :
                /\ h[h[a].ele[k]].type = OBJ_TYPE_SYMBOL
                /\ Len(h[h[a].ele[k]].str) = 1

(* A step leaves every Tuple with the elements it had: the same objects   *)
(* in the same order, with the same names.                                *)
TuplesKept ==
    \A a \in Addr :
        (heap[a].type = OBJ_TYPE_TUPLE /\ heap'[a].type = OBJ_TYPE_TUPLE) =>
            /\ heap'[a].ele = heap[a].ele
            /\ \A k \in 1..Len(heap[a].ele) :
                  heap'[heap[a].ele[k]].str = heap[heap[a].ele[k]].str

(* A typed line with a tuple of something else than one-byte symbols is   *)
(* refused by the parser and never becomes a program.                     *)
Refused(t) ==
    /\ parseObject(replBuf(t), 0).kind = "err"
    /\ \A p \in ParsedLines : TuplesWellFormed(allocParsed(heap, p).h)

(* C29  Tuple well-formedness.  In every reachable state every Tuple      *)
(* (parsed from a typed line, copied, on the stack, in a local, inside a  *)
(* list) holds only Symbols of length 1; the parser refuses a tuple       *)
(* literal with a longer symbol, an Int or a List as element; and no step *)
(* of the interpreter adds, removes or replaces an element of a Tuple.    *)
C29_TupleWellFormed ==
    /\ [](TuplesWellFormed(heap) /\ Refused(lTupleLong) /\ Refused(lTupleInt)
          /\ Refused(lTupleList))
    /\ [][TuplesKept]_vars

(* "1 (a) '(c d) dup 0 get@", typed and parsed: a is 1, the copy of the   *)
(* tuple (c d) and its element c are on the stack.                        *)
C29_Witness ==
    /\ nlines >= 1
    /\ line = parseObject(replBuf(lTupleData), 0).t
    /\ ctl = <<>>
    /\ result = 0
    /\ Len(stack) = 2
    /\ heap[stack[1]].type = OBJ_TYPE_TUPLE
    /\ TupleNames(heap, stack[1]) = <<"c", "d">>
    /\ heap[stack[2]].type = OBJ_TYPE_SYMBOL
    /\ heap[stack[2]].str = <<"c">>
    /\ IsInt(heap, TopLocal("a"), 1)

(* ------------------------------- C30 ---------------------------------- *)
(* The body of rest has reached its end; L is the list that was on top at *)
(* the call and is still held by the program.  One new list is in its     *)
(* place, with what elements 1 .. n-1 of L show, in order; the slots      *)
(* below and the locals of the caller are as they were at the call.       *)
RestEnd ==
    LET S == Top.at.stack
        N == Len(S)
        L == S[N]
        r == stack[N]
        n == Len(heap[L].ele)
    IN (ProcEnd(n_rest) /\ N >= 1 /\ heap[L].type = OBJ_TYPE_LIST) =>
          /\ Len(stack) = N
          /\ Below(stack, 1) = Below(S, 1)
          /\ r # L
          /\ heap[r].type = OBJ_TYPE_LIST
          /\ Len(heap[r].ele) = IF n = 0 THEN 0 ELSE n - 1
          /\ \A k \in 1..Len(heap[r].ele) :
                ValueOf(heap, heap[r].ele[k]) = ValueOf(heap, heap[L].ele[k + 1])
          /\ CallerLocals

RestExamples ==
    /\ Evaluated(pRest) => result = 0 /\ Len(stack) = 1 /\ IsIntList(heap, stack[1], <<2, 3>>)
    /\ Evaluated(pRestEmpty) => result = 0 /\ Len(stack) = 1 /\ IsIntList(heap, stack[1], <<>>)
    /\ Evaluated(pRestLocals) =>
          /\ result = 0
          /\ Len(stack) = 3
          /\ IsIntList(heap, stack[1], <<2>>)
          /\ IsInt(heap, stack[2], 7)
          /\ IsInt(heap, stack[3], 8)

(* C30  rest.  For a list L of length n >= 1, rest leaves in the place of *)
(* L one new list of length n-1 with L[1], ..., L[n-1] in order           *)
(* ("[1 2 3] rest" leaves [2 3]); for the empty list it leaves an empty   *)
(* list; the stack below L and the locals of the caller, f and n          *)
(* included, are unchanged.  Violated for a list with a Tuple among its   *)
(* elements: rest appends with "$n ->", which copies the list of the      *)
(* elements taken so far every time, and the copy of a Tuple has an       *)
(* unwritten quoted flag.  For lists without Tuples the claim holds.      *)
C30_Rest == RestEnd /\ RestExamples

(* After "[1 (a) 2] rest": the list on the stack holds a tuple (a) that   *)
(* is quoted, by the flag deepCopy left unwritten when -> copied the list *)
(* of the elements taken so far, and the Int 2; the (a) of L is not       *)
(* quoted.                                                                *)
C30_Witness ==
    /\ Evaluated(pRestTuple)
    /\ result = 0
    /\ Len(stack) = 1
    /\ heap[stack[1]].type = OBJ_TYPE_LIST
    /\ Len(heap[stack[1]].ele) = 2
    /\ heap[heap[stack[1]].ele[1]].type = OBJ_TYPE_TUPLE
    /\ TupleNames(heap, heap[stack[1]].ele[1]) = <<"a">>
    /\ heap[heap[stack[1]].ele[1]].quoted # 0
    /\ IsInt(heap, heap[stack[1]].ele[2], 2)
====
